---------------------------- MODULE Spec2Model ----------------------------
(*
  A model of the two protocol layers of mint/pip2:

    acsys/DPM.py    DPM.Connection, the list session: the generation counters
                    next_count / curr_count, the local device list, start()
                    and the translation of replies (_xlat_reply), read through
                    pending() / process().
    acnetd/acnet.py acnet.Connection, the bus session: the reader thread, the
                    command section (_send_command), the ack queue, the table
                    of reply queues (active_requests) and _ReplyGenerator.

  The two layers are checked under two specifications, SpecDPM and SpecBus,
  which share Init; each leaves the other layer's variables unchanged.
*)
EXTENDS Integers, Sequences, FiniteSets, TLC

\* ---------------------------------------------------------------- bounds

\* replies held in the list's reply queue at once
MaxQueue == 1
\* successful start() calls in one behaviour
MaxStarts == 5

\* ------------------------------------------------------- program constants

\* the two low bits of a reference id carry the generation (DPM.py:244, 402)
GenModulus == 4
\* Status.ACNET_SUCCESS, ACNET_PEND, ACNET_REQTMO, ACNET_NOCON
ACNET_SUCCESS == 1 + 256 * 0
ACNET_PEND == 1 + 256 * 1
ACNET_REQTMO == 1 - 256 * 6
ACNET_NOCON == 1 - 256 * 21
ACNET_RPLYPACK == 1 - 256 * 4

\* =============================================================== state ==

\* the list session (DPM.Connection) and the list service

VARIABLES
    next_count,   \* Connection.next_count: generation used when adding entries
    curr_count,   \* Connection.curr_count: generation accepted when receiving
    dev_list,     \* Connection.dev_list: sequence of <<tag, drf2>>
    replies,      \* the payloads queued for Connection.replies, decoded
    srv_active,   \* list service: the entries the last StartList activated
    nstart,       \* number of start() calls that completed successfully
    last_add,     \* (history) per tag: the drf2 of the last add_entry since
                  \* the tag was last removed, "none" when there is none
    list_obs,     \* add_entry / remote_entry / clear_list: which one just
                  \* ran, and whether it took an entry out of the list
    \* What the operation that just ran did; "none" after any other step.
    sent_adds,    \* start(): the ref_ids it sent in AddToList requests
    start_res,    \* start(): "ok" or "raised"
    start_obs,    \* start(): the requests it sent, and how it ended
    xlat          \* _xlat_reply: its message, curr_count and result

dpmVars == <<next_count, curr_count, dev_list, replies, srv_active,
             sent_adds, start_res, start_obs, nstart, last_add, list_obs,
             xlat>>

\* the bus session (acnet.Connection), its gateway and its callers
VARIABLES
    \* the reader thread
    r_pc,        \* "loop", "hs" (connected, awaiting the handshake reply),
                 \* "iter", "reset", "close", "clear" (the except block),
                 \* "dead" (the thread ended with an exception)
    r_todo,      \* except block: the queues its for loop has yet to visit
    r_size,      \* except block: the table's size when the for loop began
    \* Connection
    sock,        \* self.sock: "none", "hs", "open", "broken", "closed"
    con_event,   \* self.con_event
    name,        \* self.name
    cmd_lock,    \* self.cmd_lock: the caller holding it, 0 when free
    data_lock,   \* self.data_lock: the caller holding it, 0 when free
    ack_queue,   \* self.ack_queue
    table,       \* self.active_requests: reqid -> queue, 0 when absent
    queues,      \* the queue objects: queue -> its items
    nextq,       \* the next queue object to be created
    \* the gateway and the connection to it
    conn,        \* connections established so far
    to_gw,       \* commands written, in order, not yet handled by the gateway
    from_gw,     \* frames the gateway sent, in order, not yet read
    gw_live,     \* request ids live at the gateway on this connection
    gw_issued,   \* (history) request ids the gateway has issued
    rid_reused,  \* (history) the gateway issued a request id twice
    ncmd, nframe, nfail,
    \* the caller threads
    c_pc,        \* where each caller is
    c_op,        \* "node": get_node; "multi": request_multiple; "single":
                 \* request_single
    c_ph,        \* the command of the operation: "node" or "req"
    c_cmd,       \* (history) the command the caller wrote
    c_rid,       \* the reqid of the caller's ack
    c_q,         \* the queue the caller's _ReplyGenerator reads
    yielded,     \* (history) what the caller's _ReplyGenerator returned
    routed,      \* (history) the data frames the reader has put in a queue,
                 \* each with the queue it went to
    err_qs,      \* (history) the queues in the table when the reader's
                 \* except block was last entered
    noc_log,     \* (history) the queues that block has put ACNET_NOCON in
    cmd_obs      \* how the _send_command call, or the request_single
                 \* call, that just ended went

readerVars == <<r_pc, r_todo, r_size>>
conVars == <<sock, con_event, name, cmd_lock, data_lock, ack_queue, table,
             queues, nextq>>
gwVars == <<conn, to_gw, from_gw, gw_live, gw_issued, rid_reused, ncmd,
            nframe, nfail>>
callerVars == <<c_pc, c_op, c_ph, c_cmd, c_rid, c_q, yielded>>
histVars == <<routed, err_qs, noc_log>>
busVars == <<readerVars, conVars, gwVars, callerVars, histVars, cmd_obs>>

\* the life of a list session: construction, the stream of replies read with
\* pending() or process(), stop()
VARIABLES
    s_class,     \* "Polling" or "Blocking"; "none" before the constructor
    s_pc,        \* "new"; "disc": in _service_discovery; "open": about to
                 \* open the list; "idle": constructed, no call running;
                 \* "pending" / "process": in the loop of that generator;
                 \* "failed": the constructor raised
    dpm_task,    \* self.dpm_task: "None", the task name, or "deleted"
    list_id,     \* self.list_id, 0 for None
    g_queue,     \* the queue of self.replies (a _ReplyGenerator)
    g_blocking,  \* self.replies.blocking
    g_raised,    \* (history) next() of self.replies has raised a fatal status
    g_taken,     \* (history) the items next() took from the queue, in order,
                 \* each with the pending() call that took it
    narr,        \* items put in the queue so far
    natt,        \* discovery attempts so far
    npend,       \* pending() calls so far
    run,         \* (history) the last process() run
    g_obs,       \* the pass of next()'s loop that just ran
    ses_obs      \* the discovery attempt, or the stop(), that just ran

sesVars == <<s_class, s_pc, dpm_task, list_id, g_queue, g_blocking, g_raised,
             g_taken, narr, natt, npend, run, g_obs, ses_obs>>

\* apply_settings
VARIABLES
    has_creds,         \* hasattr(self, 'creds')
    settings_enabled,  \* self.settings_enabled
    set_obs            \* the last apply_settings call: what it sent, and the
                       \* counters and the list it was called with

setVars == <<has_creds, settings_enabled, set_obs>>

\* the pure functions of acnet.py, applied to one input
VARIABLES
    st_pc,    \* "new", "built": Status(val) constructed, "read": its
              \* properties were read
    st_in,    \* the facility and error code the value was built from
    st_val,   \* Status.value
    st_out,   \* what the properties and predicates of the Status gave
    nm_pc,    \* "new", "encoded": _ator ran, "decoded": _rtoa ran
    nm_in,    \* the name, a sequence of characters
    nm_r50,   \* the result of _ator
    nm_out    \* the result of _rtoa

codecVars == <<st_pc, st_in, st_val, st_out, nm_pc, nm_in, nm_r50, nm_out>>

vars == <<dpmVars, busVars, sesVars, setVars, codecVars>>

\* ============================================================== DPM.py ==

\* the tags a caller uses with add_entry, and the requests it adds
Tags == {0, 1}
Drfs == {"M:OUTTMP@p,1000"}
\* the requests of a caller that changes the request of a tag
ListDrfs == Drfs \cup {"M:OUTTMP@e,02"}
Generations == 0 .. (GenModulus - 1)
\* reference ids a reply can carry: non-negative, tag * 4 + generation
RefIds == {AnyTag * GenModulus + AnyGen : AnyTag \in Tags, AnyGen \in Generations}

\* acnet.Status values that a reply's status field carries in the model:
\* [1 0] success and [1 -6] ACNET_REQTMO (fatal)
StatusValues == {1, 1 - 6 * 256}

\* acnet.Status.err_code / is_fatal
ErrCode(val) == val \div 256
IsFatal(val) == ErrCode(val) < 0

\* The reply classes _xlat_reply tests for, in the order of its isinstance
\* chain, and one class it does not know (the reply to ClearList).
DataKinds == {"AnalogAlarm_reply", "BasicStatus_reply", "DigitalAlarm_reply",
              "Raw_reply", "ScalarArray_reply", "Scalar_reply",
              "TextArray_reply", "Text_reply"}
KnownKinds == {"Status_reply", "ApplySettings_reply",
               "TimedScalarArray_reply"} \cup DataKinds
UnknownKinds == {"ListStatus_reply"}

\* the kinds the modelled list service puts on the stream (a sample of
\* DataKinds stands for the eight classes _xlat_reply treats alike)
EmitKinds == {"Status_reply", "TimedScalarArray_reply", "Scalar_reply"}

NoRef == 0 - 1

\* (NoRef: the ref field of a reply that carries none)
\* A decoded reply.  ref: msg.ref_id; status: msg.status (Status_reply);
\* items: msg.status of an ApplySettings_reply, a sequence of
\* [ref, status]; ep: (history) the successful start that issued ref, 0 when
\* the reference id was not issued for a started list of this session.
Msg(kind, ref, status, items, ep) ==
    [kind |-> kind, ref |-> ref, status |-> status, items |-> items, ep |-> ep]

\* ------------------------------------------------------------ _xlat_reply

\* int(ref_id / 4) for a ref_id >= 0
XlatTag(ref) == ref \div GenModulus

\* ref_id % 4 == self.curr_count
GenMatches(ref, cnt) == (ref % GenModulus) = cnt

None == [type |-> "None", tag |-> NoRef, status |-> 0, micros |-> FALSE,
         items |-> <<>>]
ItemStatus(tag, status) ==
    [type |-> "ItemStatus", tag |-> tag, status |-> status, micros |-> FALSE,
     items |-> <<>>]
ItemData(tag, micros) ==
    [type |-> "ItemData", tag |-> tag, status |-> 0, micros |-> micros,
     items |-> <<>>]
ItemList(items) ==
    [type |-> "List", tag |-> NoRef, status |-> 0, micros |-> FALSE,
     items |-> items]

\* the entries of an ApplySettings_reply whose generation matches, in order
RECURSIVE MatchingStatuses(_, _)
MatchingStatuses(items, cnt) ==
    IF items = <<>> THEN <<>>
    ELSE LET r == Head(items)
             rest == MatchingStatuses(Tail(items), cnt)
         IN IF GenMatches(r.ref, cnt)
            THEN <<ItemStatus(XlatTag(r.ref), r.status)>> \o rest
            ELSE rest

XlatReply_NoFilter(msg, cnt) ==
    IF msg.kind = "Status_reply"
    THEN ItemStatus(XlatTag(msg.ref), msg.status)
    ELSE IF msg.kind = "ApplySettings_reply"
    THEN LET all_replies == MatchingStatuses(msg.items, cnt)
         IN IF Len(all_replies) # 0 THEN ItemList(all_replies) ELSE None
    ELSE IF msg.kind = "TimedScalarArray_reply"
    THEN ItemData(XlatTag(msg.ref), TRUE)
    ELSE IF msg.kind \in DataKinds
    THEN ItemData(XlatTag(msg.ref), FALSE)
    ELSE None

XlatReply(msg, cnt) ==
    IF msg.kind = "Status_reply"
    THEN IF GenMatches(msg.ref, cnt)
         THEN ItemStatus(XlatTag(msg.ref), msg.status)
         ELSE None
    ELSE IF msg.kind = "ApplySettings_reply"
    THEN LET all_replies == MatchingStatuses(msg.items, cnt)
         IN IF Len(all_replies) # 0 THEN ItemList(all_replies) ELSE None
    ELSE IF msg.kind = "TimedScalarArray_reply"
    THEN IF GenMatches(msg.ref, cnt)
         THEN ItemData(XlatTag(msg.ref), TRUE)
         ELSE None
    ELSE IF msg.kind \in DataKinds
    THEN IF GenMatches(msg.ref, cnt)
         THEN ItemData(XlatTag(msg.ref), FALSE)
         ELSE None
    ELSE None

\* ----------------------------------------------------------- Connection

InitCounts_Shifted == [next |-> 1, curr |-> 0]

\* __init__: next_count = 0, curr_count = 3
InitCounts == [next |-> 0, curr |-> 3]

NoXlat == [msg |-> Msg("none", NoRef, 0, <<>>, 0), cnt |-> NoRef,
           ns |-> NoRef, out |-> None]

NoListObs == [op |-> "none", replaced |-> FALSE]

\* start_obs when no start() ran.  reqs: the requests start() sent, in
\* order; cause: "none" (it completed), "rpc" (an _rpc raised), "add_fatal"
\* (the status of an AddToList reply was fatal); at: the entry it stopped at;
\* st: the status of the last AddToList reply; exc: the Status start()
\* raised, 0 when it raised none.
NoStartObs == [reqs |-> <<>>, cause |-> "none", at |-> 0, st |-> 0,
               exc |-> 0]

InitDPM ==
    /\ next_count = InitCounts.next
    /\ curr_count = InitCounts.curr
    /\ dev_list = <<>>
    /\ replies = <<>>
    /\ srv_active = [refs |-> {}, ep |-> 0]
    /\ sent_adds = <<>>
    /\ start_res = "none"
    /\ start_obs = NoStartObs
    /\ nstart = 0
    /\ last_add = [t \in Tags |-> "none"]
    /\ list_obs = NoListObs
    /\ xlat = NoXlat

WithoutTag_Keep(lst, tag) == lst

\* [(t, d) for (t, d) in dev_list if t != tag]
RECURSIVE WithoutTag(_, _)
WithoutTag(lst, tag) ==
    IF lst = <<>> THEN <<>>
    ELSE IF Head(lst)[1] = tag THEN WithoutTag(Tail(lst), tag)
    ELSE <<Head(lst)>> \o WithoutTag(Tail(lst), tag)

\* No start() and no _xlat_reply ran in this step.
NoSetObs ==
    [sent |-> FALSE, tags |-> <<>>, refs |-> <<>>, curr |-> NoRef,
     next |-> NoRef]

NoStartObserved ==
    sent_adds' = <<>> /\ start_res' = "none" /\ start_obs' = NoStartObs
NoXlatObserved == xlat' = NoXlat

\* add_entry(tag, drf2)
AddEntry(tag, drf) ==
    /\ dev_list' = WithoutTag(dev_list, tag) \o <<<<tag, drf>>>>
    /\ last_add' = [last_add EXCEPT ![tag] = drf]
    /\ list_obs' = [op |-> "add_entry",
                    replaced |-> (WithoutTag(dev_list, tag) # dev_list)]
    /\ NoStartObserved /\ NoXlatObserved
    /\ UNCHANGED <<next_count, curr_count, replies, srv_active, nstart>>
    /\ UNCHANGED busVars
    /\ UNCHANGED sesVars
    /\ UNCHANGED setVars
    /\ UNCHANGED codecVars

\* remote_entry(tag)
RemoveEntry(tag) ==
    /\ dev_list' = WithoutTag(dev_list, tag)
    /\ last_add' = [last_add EXCEPT ![tag] = "none"]
    /\ list_obs' = [op |-> "remote_entry",
                    replaced |-> (WithoutTag(dev_list, tag) # dev_list)]
    /\ NoStartObserved /\ NoXlatObserved
    /\ UNCHANGED <<next_count, curr_count, replies, srv_active, nstart>>
    /\ UNCHANGED busVars
    /\ UNCHANGED sesVars
    /\ UNCHANGED setVars
    /\ UNCHANGED codecVars

\* clear_list()
ClearList ==
    /\ dev_list' = <<>>
    /\ last_add' = [t \in Tags |-> "none"]
    /\ list_obs' = [op |-> "clear_list", replaced |-> (dev_list # <<>>)]
    /\ NoStartObserved /\ NoXlatObserved
    /\ UNCHANGED <<next_count, curr_count, replies, srv_active, nstart>>
    /\ UNCHANGED busVars
    /\ UNCHANGED sesVars
    /\ UNCHANGED setVars
    /\ UNCHANGED codecVars

AddRefId_Stale(tag, nc) == tag * GenModulus + ((nc + 1) % GenModulus)

\* _add_remote: msg.ref_id = int(tag) * 4 + self.next_count
AddRefId(tag, nc) == tag * GenModulus + nc

\* the ref_ids of the AddToList requests start() sends for entries 1..n
AddRefs(lst, n, nc) == [i \in 1 .. n |-> AddRefId(lst[i][1], nc)]

AdvanceCounts_NoWrap(nc) == [curr |-> nc, next |-> nc + 1]

\* start(): self.curr_count = self.next_count;
\*          self.next_count = (self.next_count + 1) % 4
AdvanceCounts(nc) == [curr |-> nc, next |-> (nc + 1) % GenModulus]

\* The requests of a start() of a list of n entries that gets as far as
\* position at: ClearList, the AddToList of entries 1..at, and StartList
\* after the last entry (at = n + 1).
StartRequests(n, at) ==
    <<"ClearList">>
    \o [i \in 1 .. (IF at > n THEN n ELSE at) |-> "AddToList"]
    \o (IF at > n THEN <<"StartList">> ELSE <<>>)

AddRemoteRaises_Nocon(status) ==
    IF IsFatal(status) THEN ACNET_NOCON ELSE 0

\* _add_remote: sts = acnet.Status(reply.status);
\* if sts.is_fatal(): raise sts
AddRemoteRaises(status) ==
    IF IsFatal(status) THEN status ELSE 0

\* How a start() can stop at position at.  An _rpc raises what request_single
\* raised (here ACNET_REQTMO or ACNET_NOCON) or ACNET_RPLYPACK; the reply to
\* an AddToList can carry a fatal status.
StartFailures(n, at) ==
    {[cause |-> "rpc", st |-> 0, exc |-> e] :
        e \in {ACNET_REQTMO, ACNET_RPLYPACK}}
    \cup (IF at \in 1 .. n
          THEN {[cause |-> "add_fatal", st |-> st, exc |-> AddRemoteRaises(st)] :
                   st \in {v \in StatusValues \cup {ACNET_NOCON} : IsFatal(v)}}
          ELSE {})

\* start() that completes: ClearList, one AddToList per entry, StartList, and
\* the counters advance.  The list service activates the entries just added.
StartCompletes ==
    /\ nstart < MaxStarts
    /\ sent_adds' = AddRefs(dev_list, Len(dev_list), next_count)
    /\ srv_active' = [refs |-> {AddRefId(dev_list[i][1], next_count) :
                                  i \in 1 .. Len(dev_list)},
                      ep |-> nstart + 1]
    /\ curr_count' = AdvanceCounts(next_count).curr
    /\ next_count' = AdvanceCounts(next_count).next
    /\ nstart' = nstart + 1
    /\ start_res' = "ok"
    /\ start_obs' = [reqs |-> StartRequests(Len(dev_list), Len(dev_list) + 1),
                     cause |-> "none", at |-> Len(dev_list) + 1,
                     st |-> IF dev_list = <<>> THEN 0 ELSE ACNET_SUCCESS,
                     exc |-> 0]
    /\ NoXlatObserved
    /\ UNCHANGED <<dev_list, replies>>
    /\ UNCHANGED last_add /\ list_obs' = NoListObs

\* start() called on its own
StartOk ==
    /\ StartCompletes
    /\ UNCHANGED busVars
    /\ UNCHANGED sesVars
    /\ UNCHANGED setVars
    /\ UNCHANGED codecVars

\* start() that raises.  at = 0: the ClearList rpc raises; 1 <= at <=
\* Len(dev_list): the AddToList reply for entry `at` is fatal (or its rpc
\* raises), entries 1..at were sent; at = Len(dev_list) + 1: the StartList rpc
\* raises, after every entry was sent.  The counters are not reached.  The
\* list service keeps running the list it last started.
StartRaises(at) ==
    /\ at \in 0 .. (Len(dev_list) + 1)
    /\ sent_adds' = AddRefs(dev_list,
                            IF at > Len(dev_list) THEN Len(dev_list) ELSE at,
                            next_count)
    /\ start_res' = "raised"
    /\ \E f \in StartFailures(Len(dev_list), at) :
          start_obs' = [reqs |-> StartRequests(Len(dev_list), at),
                        cause |-> f.cause, at |-> at, st |-> f.st,
                        exc |-> f.exc]
    /\ NoXlatObserved
    /\ UNCHANGED <<next_count, curr_count, dev_list, replies, srv_active,
                   nstart>>
    /\ UNCHANGED last_add /\ list_obs' = NoListObs

\* start() called on its own
StartFails(at) ==
    /\ StartRaises(at)
    /\ UNCHANGED busVars
    /\ UNCHANGED sesVars
    /\ UNCHANGED setVars
    /\ UNCHANGED codecVars

\* ------------------------------------------------------- apply_settings
\* entries an apply_settings call addresses
MaxSettings == 2

BuildStruct_NoTag(lst, index, cc) == cc

\* _build_struct: (ref_id, _) = self.dev_list[index];
\*                set_struct.ref_id = ref_id * 4 + self.curr_count
BuildStruct(lst, index, cc) == lst[index][1] * GenModulus + cc

\* the positions an input_array can address in a list of n entries
SettingInputs(n) ==
    UNION {[1 .. k -> 1 .. n] : k \in 1 .. MaxSettings}

\* apply_settings(input_array), the array addressing the positions idxs of
\* dev_list.  acquire: what gssapi gives when the object
\* has no creds yet; ticket: what the test of domain and lifetime finds.
\* The request is sent only with a good ticket; its reply may carry a fatal
\* status, which is raised after the request was sent.
ApplySettings ==
    /\ \E idxs \in SettingInputs(Len(dev_list)),
          acquire \in {"ok", "fail"}, ticket \in {"good", "bad", "error"} :
          LET enabled == IF has_creds THEN settings_enabled ELSE TRUE
          IN IF ~has_creds /\ acquire = "fail"
             THEN /\ has_creds' = FALSE
                  /\ UNCHANGED settings_enabled
                  /\ set_obs' = NoSetObs
             ELSE IF ~enabled
             THEN /\ has_creds' = TRUE
                  /\ UNCHANGED settings_enabled
                  /\ set_obs' = NoSetObs
             ELSE IF ticket = "bad"
             THEN /\ has_creds' = TRUE
                  /\ settings_enabled' = FALSE
                  /\ set_obs' = NoSetObs
             ELSE IF ticket = "error"
             THEN /\ has_creds' = FALSE
                  /\ settings_enabled' = FALSE
                  /\ set_obs' = NoSetObs
             ELSE /\ has_creds' = TRUE
                  /\ settings_enabled' = TRUE
                  /\ set_obs' =
                        [sent |-> TRUE,
                         tags |-> [i \in 1 .. Len(idxs) |-> dev_list[idxs[i]][1]],
                         refs |-> [i \in 1 .. Len(idxs) |->
                                     BuildStruct(dev_list, idxs[i], curr_count)],
                         curr |-> curr_count,
                         next |-> next_count]
    /\ NoStartObserved /\ NoXlatObserved
    /\ UNCHANGED <<next_count, curr_count, dev_list, replies, srv_active,
                   nstart>>
    /\ UNCHANGED last_add /\ list_obs' = NoListObs
    /\ UNCHANGED busVars
    /\ UNCHANGED sesVars
    /\ UNCHANGED codecVars

\* the references of the started list, in increasing order
RECURSIVE RefSeq(_)
RefSeq(refs) ==
    IF refs = {} THEN <<>>
    ELSE LET lo == CHOOSE r \in refs : \A o \in refs : r <= o
         IN <<lo>> \o RefSeq(refs \ {lo})

\* The list service sends a reply for an entry of the started list.
ServerReply ==
    /\ Len(replies) < MaxQueue
    /\ \E ref \in srv_active.refs, kind \in EmitKinds, st \in StatusValues :
          /\ (kind # "Status_reply") => st = 1
          /\ replies' = Append(replies,
                               Msg(kind, ref, st, <<>>, srv_active.ep))
    /\ NoStartObserved /\ NoXlatObserved
    /\ UNCHANGED <<next_count, curr_count, dev_list, srv_active, nstart>>
    /\ UNCHANGED last_add /\ list_obs' = NoListObs
    /\ UNCHANGED busVars
    /\ UNCHANGED sesVars
    /\ UNCHANGED setVars
    /\ UNCHANGED codecVars

\* The list service sends the per-entry statuses of applied settings: one
\* status for every entry of the started list.
ServerSettingsReply ==
    /\ Len(replies) < MaxQueue
    /\ srv_active.refs # {}
    /\ LET rs == RefSeq(srv_active.refs)
           items == [i \in 1 .. Len(rs) |->
                       [ref |-> rs[i],
                        status |-> IF i = 1 THEN 1 ELSE 1 - 6 * 256]]
       IN replies' = Append(replies,
                            Msg("ApplySettings_reply", NoRef, 0, items,
                                srv_active.ep))
    /\ NoStartObserved /\ NoXlatObserved
    /\ UNCHANGED <<next_count, curr_count, dev_list, srv_active, nstart>>
    /\ UNCHANGED last_add /\ list_obs' = NoListObs
    /\ UNCHANGED busVars
    /\ UNCHANGED sesVars
    /\ UNCHANGED setVars
    /\ UNCHANGED codecVars

\* A reply whose reference id this session's started list did not issue:
\* the decoder accepts any ref_id, any reply class, and any list of statuses.
OtherReply ==
    /\ Len(replies) < MaxQueue
    /\ \/ \E ref \in RefIds, kind \in {"Raw_reply"} \cup UnknownKinds :
             replies' = Append(replies, Msg(kind, ref, 1, <<>>, 0))
       \/ \E r1 \in RefIds :
             replies' = Append(replies,
                 Msg("ApplySettings_reply", NoRef, 0,
                     <<[ref |-> r1, status |-> 1],
                       [ref |-> (r1 + 1) % (GenModulus * Cardinality(Tags)),
                        status |-> 1]>>, 0))
    /\ NoStartObserved /\ NoXlatObserved
    /\ UNCHANGED <<next_count, curr_count, dev_list, srv_active, nstart>>
    /\ UNCHANGED last_add /\ list_obs' = NoListObs
    /\ UNCHANGED busVars
    /\ UNCHANGED sesVars
    /\ UNCHANGED setVars
    /\ UNCHANGED codecVars

\* One iteration of the loop of pending() / process(): take the next queued
\* reply and translate it.
PullReply ==
    /\ replies # <<>>
    /\ replies' = Tail(replies)
    /\ xlat' = [msg |-> Head(replies), cnt |-> curr_count, ns |-> nstart,
                out |-> XlatReply(Head(replies), curr_count)]
    /\ NoStartObserved
    /\ UNCHANGED <<next_count, curr_count, dev_list, srv_active, nstart>>
    /\ UNCHANGED last_add /\ list_obs' = NoListObs
    /\ UNCHANGED busVars
    /\ UNCHANGED sesVars
    /\ UNCHANGED setVars
    /\ UNCHANGED codecVars

NextDPM ==
    \/ \E tag \in Tags, drf \in Drfs : AddEntry(tag, drf)
    \/ \E tag \in Tags : RemoveEntry(tag)
    \/ ClearList
    \/ StartOk
    \/ \E at \in 0 .. (Cardinality(Tags) + 1) : StartFails(at)
    \/ ServerReply
    \/ ServerSettingsReply
    \/ OtherReply
    \/ PullReply


\* ============================================================ acnet.py ==

\* ---------------------------------------------------------------- bounds

\* commands written to the socket in one behaviour
MaxCmds == 4
\* data frames the gateway sends in one behaviour
MaxFrames == 3
\* times the network drops the connection in one behaviour
MaxFails == 1
\* A behaviour holds MaxLoad commands, frames and drops together, a drop
\* counting as MaxFrames of them: behaviours without a drop use all the
\* commands and frames, behaviours with a drop share MaxCmds between them.
MaxLoad == MaxCmds + MaxFrames + 1

\* ------------------------------------------------------- program constants

\* queue.Queue(4): the capacity of ack_queue
AckQueueSize == 4

Load == ncmd + nframe + MaxFrames * nfail

Callers == {1, 2}
\* the request ids the gateway issues
ReqIds == {1, 2}
\* the node value in the ack of a name lookup, which a caller that takes that
\* ack for the ack of a request reads as a reqid
NodeValue == 0
\* the keys self.active_requests can hold
Keys == ReqIds \cup {NodeValue}
NoQueue == 0

NoCmdObs == [c |-> 0, kind |-> "none", how |-> "none", raised |-> "none",
             sent |-> 0, got |-> 0]

\* acnet.Connection.__init__: the data structures, and the reader thread
\* started; self.sock does not exist until the thread creates it.
InitBus ==
    /\ r_pc = "loop" /\ r_todo = {} /\ r_size = 0
    /\ sock = "none" /\ con_event = FALSE /\ name = 0
    /\ cmd_lock = 0 /\ data_lock = 0
    /\ ack_queue = <<>>
    /\ table = [r \in Keys |-> NoQueue]
    /\ queues = <<>>
    /\ nextq = 1
    /\ conn = 0 /\ to_gw = <<>> /\ from_gw = <<>>
    /\ gw_live = {} /\ gw_issued = {} /\ rid_reused = FALSE
    /\ ncmd = 0 /\ nframe = 0 /\ nfail = 0
    /\ c_pc = [c \in Callers |-> "idle"]
    /\ c_op = [c \in Callers |-> "none"]
    /\ c_ph = [c \in Callers |-> "none"]
    /\ c_cmd = [c \in Callers |-> 0]
    /\ c_rid = [c \in Callers |-> 0]
    /\ c_q = [c \in Callers |-> NoQueue]
    /\ yielded = [c \in Callers |-> <<>>]
    /\ routed = {}
    /\ err_qs = {}
    /\ noc_log = <<>>
    /\ cmd_obs = NoCmdObs

\* data that unmarshal_reply rejects, and no data at all
BadPkt == Msg("bad", NoRef, 0, <<>>, 0)

NoPkt == Msg("none", NoRef, 0, <<>>, 0)

NoSesItem == [st |-> 0, n |-> 0, pkt |-> NoPkt]

NoGenObs ==
    [res |-> "none", item |-> NoSesItem,
     before |-> <<>>, after |-> <<>>, blocking |-> TRUE,
     raised_before |-> FALSE, call |-> 0]

NoSesObs ==
    [op |-> "none", sent |-> <<>>, list_id |-> 0, exc |-> 0, reply |-> "none",
     rec |-> None]

\* before the constructor of Polling or Blocking; a generator is created
\* with blocking = True (acnet.py 86)
InitSes ==
    /\ s_class = "none"
    /\ s_pc = "new"
    /\ dpm_task = "None"
    /\ list_id = 0
    /\ g_queue = <<>>
    /\ g_blocking = TRUE
    /\ g_raised = FALSE
    /\ g_taken = <<>>
    /\ narr = 0
    /\ natt = 0
    /\ npend = 0
    /\ run = [started |-> FALSE, records |-> 0, stops |-> 0, ended |-> FALSE]
    /\ g_obs = NoGenObs
    /\ ses_obs = NoSesObs

\* __init__: self.settings_enabled = False; creds is not an attribute yet
InitSet ==
    /\ has_creds = FALSE
    /\ settings_enabled = FALSE
    /\ set_obs = NoSetObs

NoStatusOut ==
    [facility |-> 0, err_code |-> 0, success |-> FALSE, fatal |-> FALSE,
     warning |-> FALSE]

NoNameOut == [ok |-> TRUE, str |-> <<>>]

\* no function applied yet
InitCodec ==
    /\ st_pc = "new"
    /\ st_in = [facility |-> 0, err_code |-> 0]
    /\ st_val = 0
    /\ st_out = NoStatusOut
    /\ nm_pc = "new"
    /\ nm_in = <<>>
    /\ nm_r50 = [lo |-> 0, hi |-> 0]
    /\ nm_out = NoNameOut

Init == InitDPM /\ InitBus /\ InitSes /\ InitSet /\ InitCodec

\* the queues the table holds
TableQueues == {table[r] : r \in Keys} \ {NoQueue}
\* len(self.active_requests)
TableSize == Cardinality({r \in Keys : table[r] # NoQueue})

\* queue.put(item)
Put(qs, q, item) == [qs EXCEPT ![q] = Append(@, item)]

\* a queue item: (status, addr, data); rid and n identify the frame it was
\* unpacked from (n = 0: put by the except block)
Item(st, rid, n) == [st |-> st, rid |-> rid, n |-> n]

NoCmdObserved == cmd_obs' = NoCmdObs

\* --------------------------------------------------------- _read_thread

RouteKey_Fixed(reqid) == 1

\* the key under which the reader files a data frame: its reqid field
RouteKey(reqid) == reqid

\* mtype == 3: under data_lock, put the frame in the queue of its reqid,
\* creating the queue if the table has none.
ReaderData ==
    /\ r_pc = "loop" /\ con_event /\ sock = "open"
    /\ from_gw # <<>> /\ Head(from_gw).type = "data"
    /\ data_lock = 0
    /\ LET f == Head(from_gw)
           key == RouteKey(f.rid)
           unpacked_data == Item(f.st, f.rid, f.n)
       IN /\ IF table[key] # NoQueue
             THEN /\ queues' = Put(queues, table[key], unpacked_data)
                  /\ UNCHANGED <<table, nextq>>
             ELSE /\ queues' = Append(queues, <<unpacked_data>>)
                  /\ table' = [table EXCEPT ![key] = nextq]
                  /\ nextq' = nextq + 1
          /\ routed' = routed \cup
                          {[q |-> IF table[key] # NoQueue THEN table[key]
                                  ELSE nextq,
                            item |-> unpacked_data]}
    /\ from_gw' = Tail(from_gw)
    /\ NoCmdObserved
    /\ UNCHANGED <<readerVars, sock, con_event, name, cmd_lock, data_lock,
                   ack_queue, conn, to_gw, gw_live, gw_issued, rid_reused,
                   ncmd, nframe, nfail, callerVars, err_qs, noc_log>>
    /\ UNCHANGED dpmVars
    /\ UNCHANGED sesVars
    /\ UNCHANGED setVars
    /\ UNCHANGED codecVars

\* mtype == 2: self.ack_queue.put(data), which blocks while the queue is full
ReaderAck ==
    /\ r_pc = "loop" /\ con_event /\ sock = "open"
    /\ from_gw # <<>> /\ Head(from_gw).type = "ack"
    /\ Len(ack_queue) < AckQueueSize
    /\ ack_queue' = Append(ack_queue, Head(from_gw))
    /\ from_gw' = Tail(from_gw)
    /\ NoCmdObserved
    /\ UNCHANGED <<readerVars, sock, con_event, name, cmd_lock, data_lock,
                   table, queues, nextq, conn, to_gw, gw_live, gw_issued,
                   rid_reused, ncmd, nframe, nfail, callerVars, histVars>>
    /\ UNCHANGED dpmVars
    /\ UNCHANGED sesVars
    /\ UNCHANGED setVars
    /\ UNCHANGED codecVars

\* con_event not set: create the socket, connect, send the handshake.
\* The connect may fail, which raises.
ReaderConnect ==
    /\ r_pc = "loop" /\ ~con_event
    /\ \/ /\ sock' = "hs"
          /\ r_pc' = "hs"
          /\ UNCHANGED <<r_todo, r_size, err_qs, noc_log>>
       \/ /\ sock' = "broken"
          /\ r_pc' = "iter"
          /\ r_todo' = TableQueues
          /\ r_size' = TableSize
          /\ err_qs' = TableQueues
          /\ noc_log' = <<>>
    /\ NoCmdObserved
    /\ UNCHANGED <<con_event, name, cmd_lock, data_lock, ack_queue, table,
                   queues, nextq, gwVars, callerVars, routed>>
    /\ UNCHANGED dpmVars
    /\ UNCHANGED sesVars
    /\ UNCHANGED setVars
    /\ UNCHANGED codecVars

NameFromReply_Kept(assigned, old) == old

\* (_, status, _, self.name) = struct.unpack(">hhBi", data)
NameFromReply(assigned, old) == assigned

\* the handshake reply arrives: self.name is set from it, con_event is set.
\* The gateway assigns connection number conn + 1 the name conn + 1.
ReaderHandshake ==
    /\ r_pc = "hs" /\ sock = "hs"
    /\ conn' = conn + 1
    /\ name' = NameFromReply(conn + 1, name)
    /\ sock' = "open"
    /\ con_event' = TRUE
    /\ r_pc' = "loop"
    /\ NoCmdObserved
    /\ UNCHANGED <<r_todo, r_size, cmd_lock, data_lock, ack_queue, table,
                   queues, nextq, to_gw, from_gw, gw_live, gw_issued,
                   rid_reused, ncmd, nframe, nfail, callerVars, histVars>>
    /\ UNCHANGED dpmVars
    /\ UNCHANGED sesVars
    /\ UNCHANGED setVars
    /\ UNCHANGED codecVars

\* a receive on the dropped connection raises: the except block is entered
\* and its for loop over self.active_requests.items() begins
ReaderError ==
    /\ r_pc \in {"loop", "hs"}
    /\ sock = "broken"
    /\ r_pc' = "iter"
    /\ r_todo' = TableQueues
    /\ r_size' = TableSize
    /\ err_qs' = TableQueues
    /\ noc_log' = <<>>
    /\ NoCmdObserved
    /\ UNCHANGED <<conVars, gwVars, callerVars, routed>>
    /\ UNCHANGED dpmVars
    /\ UNCHANGED sesVars
    /\ UNCHANGED setVars
    /\ UNCHANGED codecVars

\* one step of the for loop, which runs without data_lock.  When the table
\* changed size since the loop began, the live view of a Python 3 dict raises
\* RuntimeError inside the except block and the thread ends; the list that
\* items() returns under Python 2 is not affected.
HandlerIter ==
    /\ r_pc = "iter"
    /\ \/ /\ TableSize # r_size
          /\ r_pc' = "dead"
          /\ UNCHANGED <<r_todo, r_size, queues, noc_log>>
       \/ /\ r_todo # {}
          /\ \E q \in r_todo :
                /\ queues' = Put(queues, q, Item(ACNET_NOCON, 0, 0))
                /\ r_todo' = r_todo \ {q}
                /\ noc_log' = Append(noc_log, q)
          /\ UNCHANGED <<r_pc, r_size>>
       \/ /\ r_todo = {}
          /\ r_pc' = "reset"
          /\ UNCHANGED <<r_todo, r_size, queues, noc_log>>
    /\ NoCmdObserved
    /\ UNCHANGED <<sock, con_event, name, cmd_lock, data_lock, ack_queue,
                   table, nextq, gwVars, callerVars, routed, err_qs>>
    /\ UNCHANGED dpmVars
    /\ UNCHANGED sesVars
    /\ UNCHANGED setVars
    /\ UNCHANGED codecVars

ResetTable_Kept == table

\* dict()
ResetTable == [r \in Keys |-> NoQueue]

\* self.active_requests = dict()
HandlerReset ==
    /\ r_pc = "reset"
    /\ table' = ResetTable
    /\ r_pc' = "close"
    /\ NoCmdObserved
    /\ UNCHANGED <<r_todo, r_size, sock, con_event, name, cmd_lock,
                   data_lock, ack_queue, queues, nextq, gwVars, callerVars,
                   histVars>>
    /\ UNCHANGED dpmVars
    /\ UNCHANGED sesVars
    /\ UNCHANGED setVars
    /\ UNCHANGED codecVars

\* self.sock.close()
HandlerClose ==
    /\ r_pc = "close"
    /\ sock' = "closed"
    /\ r_pc' = "clear"
    /\ NoCmdObserved
    /\ UNCHANGED <<r_todo, r_size, con_event, name, cmd_lock, data_lock,
                   ack_queue, table, queues, nextq, gwVars, callerVars,
                   histVars>>
    /\ UNCHANGED dpmVars
    /\ UNCHANGED sesVars
    /\ UNCHANGED setVars
    /\ UNCHANGED codecVars

\* self.con_event.clear(); time.sleep(2); back to the top of the loop
HandlerClear ==
    /\ r_pc = "clear"
    /\ con_event' = FALSE
    /\ r_pc' = "loop"
    /\ NoCmdObserved
    /\ UNCHANGED <<r_todo, r_size, sock, name, cmd_lock, data_lock,
                   ack_queue, table, queues, nextq, gwVars, callerVars,
                   histVars>>
    /\ UNCHANGED dpmVars
    /\ UNCHANGED sesVars
    /\ UNCHANGED setVars
    /\ UNCHANGED codecVars

\* ------------------------------------------------------------- callers

\* the caller's operation is over: it returned or raised
EndOp(c) ==
    /\ c_pc' = [c_pc EXCEPT ![c] = "idle"]
    /\ c_op' = [c_op EXCEPT ![c] = "none"]
    /\ c_ph' = [c_ph EXCEPT ![c] = "none"]
    /\ c_cmd' = [c_cmd EXCEPT ![c] = 0]
    /\ c_rid' = [c_rid EXCEPT ![c] = 0]
    /\ c_q' = [c_q EXCEPT ![c] = NoQueue]
    /\ yielded' = [yielded EXCEPT ![c] = <<>>]

CmdObs(c, how, raised, got) ==
    [c |-> c, kind |-> c_ph[c], how |-> how, raised |-> raised,
     sent |-> c_cmd[c], got |-> got]

\* get_node(name), request_multiple(path, data, timeout) or
\* request_single(path, data, timeout) is called.  All begin with
\* con_event.wait(1), which returns within one second whether or not the
\* event is set, and then send the name lookup: _send_request calls get_node
\* while it packs its command.  (The callers being alike,
\* caller 1 makes the first call of a behaviour.)
Begin(c, op) ==
    /\ c_pc[c] = "idle"
    /\ (c # 1) => (ncmd > 0)
    /\ ncmd + (IF op = "node" THEN 1 ELSE 2) <= MaxCmds
    /\ Load + (IF op = "node" THEN 1 ELSE 2) <= MaxLoad
    /\ ncmd' = ncmd + (IF op = "node" THEN 1 ELSE 2)
    /\ c_pc' = [c_pc EXCEPT ![c] = "lock"]
    /\ c_op' = [c_op EXCEPT ![c] = op]
    /\ c_ph' = [c_ph EXCEPT ![c] = "node"]
    /\ c_cmd' = [c_cmd EXCEPT ![c] = ncmd + 1]
    /\ NoCmdObserved
    /\ UNCHANGED <<readerVars, conVars, conn, to_gw, from_gw, gw_live,
                   gw_issued, rid_reused, nframe, nfail, c_rid, c_q, yielded,
                   histVars>>
    /\ UNCHANGED dpmVars
    /\ UNCHANGED sesVars
    /\ UNCHANGED setVars
    /\ UNCHANGED codecVars

CmdLockFree_Always == TRUE

\* threading.Lock: acquire succeeds only while no thread holds the lock
CmdLockFree == cmd_lock = 0

\* _send_command: with self.cmd_lock
CmdLock(c) ==
    /\ c_pc[c] = "lock"
    /\ CmdLockFree
    /\ cmd_lock' = c
    /\ c_pc' = [c_pc EXCEPT ![c] = "write"]
    /\ NoCmdObserved
    /\ UNCHANGED <<readerVars, sock, con_event, name, data_lock, ack_queue,
                   table, queues, nextq, gwVars, c_op, c_ph, c_cmd, c_rid,
                   c_q, yielded, histVars>>
    /\ UNCHANGED dpmVars
    /\ UNCHANGED sesVars
    /\ UNCHANGED setVars
    /\ UNCHANGED codecVars

\* the exception that self.sock.sendall raises in _send_command, "none" when
\* the write goes through.  On a dropped connection the write may still be
\* accepted by the local socket.
WriteOutcomes ==
    CASE sock = "none" -> {"AttributeError"}
      [] sock = "closed" -> {"OSError"}
      [] sock = "broken" -> {"OSError", "none"}
      [] OTHER -> {"none"}

\* self.sock.sendall(cmd); self.sock.sendall(data).  An exception leaves the
\* with block, which releases cmd_lock, and ends the operation.
CmdWrite(c) ==
    /\ c_pc[c] = "write"
    /\ \E exc \in WriteOutcomes :
          IF exc = "none"
          THEN /\ to_gw' = IF sock \in {"open", "hs"}
                           THEN Append(to_gw, [id |-> c_cmd[c],
                                               kind |-> c_ph[c]])
                           ELSE to_gw
               /\ c_pc' = [c_pc EXCEPT ![c] = "ack"]
               /\ NoCmdObserved
               /\ UNCHANGED <<cmd_lock, c_op, c_ph, c_cmd, c_rid, c_q,
                              yielded>>
          ELSE /\ cmd_lock' = 0
               /\ cmd_obs' = CmdObs(c, IF exc = "OSError" THEN "write_failed"
                                       ELSE "no_socket", exc, 0)
               /\ EndOp(c)
               /\ UNCHANGED to_gw
    /\ UNCHANGED <<readerVars, sock, con_event, name, data_lock, ack_queue,
                   table, queues, nextq, conn, from_gw, gw_live, gw_issued,
                   rid_reused, ncmd, nframe, nfail, histVars>>
    /\ UNCHANGED dpmVars
    /\ UNCHANGED sesVars
    /\ UNCHANGED setVars
    /\ UNCHANGED codecVars

\* rpy = self.ack_queue.get(True, 2) returns the oldest queued ack; the with
\* block ends.  get_node returns the node; _send_request goes on to its own
\* command, or with the ack of that command to the table.
CmdAck(c) ==
    /\ c_pc[c] = "ack"
    /\ ack_queue # <<>>
    /\ ack_queue' = Tail(ack_queue)
    /\ cmd_lock' = 0
    /\ cmd_obs' = CmdObs(c, "ack", "none", Head(ack_queue).cmd)
    /\ IF c_ph[c] = "node" /\ c_op[c] = "node"
       THEN EndOp(c)
       ELSE IF c_ph[c] = "node"
       THEN /\ c_ph' = [c_ph EXCEPT ![c] = "req"]
            /\ c_cmd' = [c_cmd EXCEPT ![c] = @ + 1]
            /\ c_pc' = [c_pc EXCEPT ![c] = "lock"]
            /\ UNCHANGED <<c_op, c_rid, c_q, yielded>>
       ELSE /\ c_rid' = [c_rid EXCEPT ![c] = Head(ack_queue).rid]
            /\ c_pc' = [c_pc EXCEPT ![c] = "reg"]
            /\ UNCHANGED <<c_op, c_ph, c_cmd, c_q, yielded>>
    /\ UNCHANGED <<readerVars, sock, con_event, name, data_lock, table,
                   queues, nextq, gwVars, histVars>>
    /\ UNCHANGED dpmVars
    /\ UNCHANGED sesVars
    /\ UNCHANGED setVars
    /\ UNCHANGED codecVars

\* no ack within 2 seconds: queue.Empty, and _send_command raises ACNET_NOCON
CmdTimeout(c) ==
    /\ c_pc[c] = "ack"
    /\ ack_queue = <<>>
    /\ cmd_lock' = 0
    /\ cmd_obs' = CmdObs(c, "timeout", "NOCON", 0)
    /\ EndOp(c)
    /\ UNCHANGED <<readerVars, sock, con_event, name, data_lock, ack_queue,
                   table, queues, nextq, gwVars, histVars>>
    /\ UNCHANGED dpmVars
    /\ UNCHANGED sesVars
    /\ UNCHANGED setVars
    /\ UNCHANGED codecVars

\* _send_request: with self.data_lock: if reqid not in self.active_requests
Register(c) ==
    /\ c_pc[c] = "reg"
    /\ data_lock = 0
    /\ data_lock' = c
    /\ c_pc' = [c_pc EXCEPT ![c] = IF table[c_rid[c]] = NoQueue
                                   THEN "reg_ins" ELSE "reg_ret"]
    /\ NoCmdObserved
    /\ UNCHANGED <<readerVars, sock, con_event, name, cmd_lock, ack_queue,
                   table, queues, nextq, gwVars, c_op, c_ph, c_cmd, c_rid,
                   c_q, yielded, histVars>>
    /\ UNCHANGED dpmVars
    /\ UNCHANGED sesVars
    /\ UNCHANGED setVars
    /\ UNCHANGED codecVars

\* self.active_requests[reqid] = queue.Queue()
RegisterInsert(c) ==
    /\ c_pc[c] = "reg_ins"
    /\ table' = [table EXCEPT ![c_rid[c]] = nextq]
    /\ queues' = Append(queues, <<>>)
    /\ nextq' = nextq + 1
    /\ c_pc' = [c_pc EXCEPT ![c] = "reg_ret"]
    /\ NoCmdObserved
    /\ UNCHANGED <<readerVars, sock, con_event, name, cmd_lock, data_lock,
                   ack_queue, gwVars, c_op, c_ph, c_cmd, c_rid, c_q, yielded,
                   histVars>>
    /\ UNCHANGED dpmVars
    /\ UNCHANGED sesVars
    /\ UNCHANGED setVars
    /\ UNCHANGED codecVars

\* return self.active_requests[reqid]: KeyError when the table no longer
\* holds the reqid; the with block ends either way.
RegisterReturn(c) ==
    /\ c_pc[c] = "reg_ret"
    /\ data_lock' = 0
    /\ IF table[c_rid[c]] = NoQueue
       THEN EndOp(c)
       ELSE /\ c_q' = [c_q EXCEPT ![c] = table[c_rid[c]]]
            /\ c_pc' = [c_pc EXCEPT ![c] = IF c_op[c] = "single" THEN "get"
                                           ELSE "stream"]
            /\ UNCHANGED <<c_op, c_ph, c_cmd, c_rid, yielded>>
    /\ NoCmdObserved
    /\ UNCHANGED <<readerVars, sock, con_event, name, cmd_lock, ack_queue,
                   table, queues, nextq, gwVars, histVars>>
    /\ UNCHANGED dpmVars
    /\ UNCHANGED sesVars
    /\ UNCHANGED setVars
    /\ UNCHANGED codecVars

\* _ReplyGenerator.next, one pass of its loop: take the oldest item of the
\* queue; a fatal status is raised, ACNET_PEND is skipped, anything else is
\* returned.
QueueGet(q) == [item |-> Head(q), rest |-> Tail(q)]

StreamNext(c) ==
    /\ c_pc[c] = "stream"
    /\ queues[c_q[c]] # <<>>
    /\ LET got == QueueGet(queues[c_q[c]])
       IN /\ queues' = [queues EXCEPT ![c_q[c]] = got.rest]
          /\ IF IsFatal(got.item.st)
             THEN EndOp(c)
             ELSE /\ yielded' = [yielded EXCEPT ![c] =
                                   IF got.item.st = ACNET_PEND THEN @
                                   ELSE Append(@, got.item)]
                  /\ UNCHANGED <<c_pc, c_op, c_ph, c_cmd, c_rid, c_q>>
    /\ NoCmdObserved
    /\ UNCHANGED <<readerVars, sock, con_event, name, cmd_lock, data_lock,
                   ack_queue, table, nextq, gwVars, histVars>>
    /\ UNCHANGED dpmVars
    /\ UNCHANGED sesVars
    /\ UNCHANGED setVars
    /\ UNCHANGED codecVars

SingleResult_Nocon(item) ==
    IF IsFatal(item.st)
    THEN [how |-> "raised", raised |-> ACNET_NOCON]
    ELSE [how |-> "returned", raised |-> "none"]

\* request_single, after .get(True) returned item: if status.is_fatal():
\* raise status; return (addr, data)
SingleResult(item) ==
    IF IsFatal(item.st)
    THEN [how |-> "raised", raised |-> item.st]
    ELSE [how |-> "returned", raised |-> "none"]

\* request_single: (status, addr, data) = <queue>.get(True), which waits for
\* the queue's first item, and the call ends.  The table keeps the queue.
SingleGet(c) ==
    /\ c_pc[c] = "get"
    /\ queues[c_q[c]] # <<>>
    /\ LET got == QueueGet(queues[c_q[c]])
           res == SingleResult(got.item)
       IN /\ queues' = [queues EXCEPT ![c_q[c]] = got.rest]
          /\ cmd_obs' = [c |-> c, kind |-> "single", how |-> res.how,
                         raised |-> res.raised, sent |-> c_cmd[c],
                         got |-> got.item]
    /\ EndOp(c)
    /\ UNCHANGED <<readerVars, sock, con_event, name, cmd_lock, data_lock,
                   ack_queue, table, nextq, gwVars, histVars>>
    /\ UNCHANGED dpmVars
    /\ UNCHANGED sesVars
    /\ UNCHANGED setVars
    /\ UNCHANGED codecVars

\* ------------------------------------------------- gateway and network

\* The gateway handles the oldest command it received and acknowledges it;
\* for a request it issues a request id not live on this connection.
GwHandle ==
    /\ sock = "open"
    /\ to_gw # <<>>
    /\ LET cmd == Head(to_gw)
       IN IF cmd.kind = "node"
          THEN /\ from_gw' = Append(from_gw,
                     [type |-> "ack", cmd |-> cmd.id, rid |-> NodeValue,
                      st |-> 0, n |-> 0])
               /\ UNCHANGED <<gw_live, gw_issued, rid_reused>>
          ELSE \E rid \in ReqIds \ gw_live :
               /\ from_gw' = Append(from_gw,
                     [type |-> "ack", cmd |-> cmd.id, rid |-> rid,
                      st |-> 0, n |-> 0])
               /\ gw_live' = gw_live \cup {rid}
               /\ gw_issued' = gw_issued \cup {rid}
               /\ rid_reused' = (rid_reused \/ rid \in gw_issued)
    /\ to_gw' = Tail(to_gw)
    /\ NoCmdObserved
    /\ UNCHANGED <<readerVars, conVars, conn, ncmd, nframe, nfail,
                   callerVars, histVars>>
    /\ UNCHANGED dpmVars
    /\ UNCHANGED sesVars
    /\ UNCHANGED setVars
    /\ UNCHANGED codecVars

\* The gateway sends a reply to a live request.
GwData ==
    /\ sock = "open"
    /\ nframe < MaxFrames /\ Load < MaxLoad
    /\ \E rid \in gw_live, st \in {ACNET_SUCCESS, ACNET_PEND} :
          from_gw' = Append(from_gw,
                [type |-> "data", cmd |-> 0, rid |-> rid, st |-> st,
                 n |-> nframe + 1])
    /\ nframe' = nframe + 1
    /\ NoCmdObserved
    /\ UNCHANGED <<readerVars, conVars, conn, to_gw, gw_live, gw_issued,
                   rid_reused, ncmd, nfail, callerVars, histVars>>
    /\ UNCHANGED dpmVars
    /\ UNCHANGED sesVars
    /\ UNCHANGED setVars
    /\ UNCHANGED codecVars

\* The gateway relays a reply with a fatal status (the replier's, or its own
\* ACNET_REQTMO when the request timed out) to a live request.
GwDataFatal ==
    /\ sock = "open"
    /\ nframe < MaxFrames /\ Load < MaxLoad
    /\ \E rid \in gw_live :
          from_gw' = Append(from_gw,
                [type |-> "data", cmd |-> 0, rid |-> rid, st |-> ACNET_REQTMO,
                 n |-> nframe + 1])
    /\ nframe' = nframe + 1
    /\ NoCmdObserved
    /\ UNCHANGED <<readerVars, conVars, conn, to_gw, gw_live, gw_issued,
                   rid_reused, ncmd, nfail, callerVars, histVars>>
    /\ UNCHANGED dpmVars
    /\ UNCHANGED sesVars
    /\ UNCHANGED setVars
    /\ UNCHANGED codecVars

\* The connection drops: what was in flight is lost, and the gateway forgets
\* the requests of the connection.
NetFail ==
    /\ nfail < MaxFails /\ Load + MaxFrames <= MaxLoad
    /\ sock \in {"open", "hs"}
    /\ sock' = "broken"
    /\ to_gw' = <<>>
    /\ from_gw' = <<>>
    /\ gw_live' = {}
    /\ nfail' = nfail + 1
    /\ NoCmdObserved
    /\ UNCHANGED <<readerVars, con_event, name, cmd_lock, data_lock,
                   ack_queue, table, queues, nextq, conn, gw_issued,
                   rid_reused, ncmd, nframe, callerVars, histVars>>
    /\ UNCHANGED dpmVars
    /\ UNCHANGED sesVars
    /\ UNCHANGED setVars
    /\ UNCHANGED codecVars

NextBus ==
    \/ ReaderData
    \/ ReaderAck
    \/ ReaderConnect
    \/ ReaderHandshake
    \/ ReaderError
    \/ HandlerIter
    \/ HandlerReset
    \/ HandlerClose
    \/ HandlerClear
    \/ \E c \in Callers, op \in {"node", "multi"} : Begin(c, op)
    \/ \E c \in Callers : CmdLock(c)
    \/ \E c \in Callers : CmdWrite(c)
    \/ \E c \in Callers : CmdAck(c)
    \/ \E c \in Callers : CmdTimeout(c)
    \/ \E c \in Callers : Register(c)
    \/ \E c \in Callers : RegisterInsert(c)
    \/ \E c \in Callers : RegisterReturn(c)
    \/ \E c \in Callers : StreamNext(c)
    \/ GwHandle
    \/ GwData
    \/ NetFail

\* ========================================================= list session ==
\* A Polling or Blocking object from its constructor on: the constructor
\* (DPM.py 121-146, 160-226), the stream of replies of the OpenList request
\* (acnet.py 84-108) read by pending() and process(), and stop().

\* ---------------------------------------------------------------- bounds
\* items the reader thread puts in the queue of self.replies
MaxArrivals == 3
\* discovery attempts
MaxAttempts == 3
\* pending() calls
MaxPendings == 3

Classes == {"Polling", "Blocking"}

\* the 3-tuple (status, addr, data) the reader thread queues, with its
\* arrival number; pkt is the decoded data
SesItem(st, n, pkt) == [st |-> st, n |-> n, pkt |-> pkt]

\* data of tag 0 and status messages of tag 1, each of generation 0 or 3
SesPkts ==
    {Msg("Scalar_reply", r, ACNET_SUCCESS, <<>>, 0) : r \in {0, 3}}
    \cup {Msg("Status_reply", r, ACNET_REQTMO, <<>>, 0) : r \in {4, 7}}
    \cup {Msg("Status_reply", 7, ACNET_SUCCESS, <<>>, 0)}

ArrivalKinds ==
    {[st |-> ACNET_SUCCESS, pkt |-> p] : p \in SesPkts \cup {BadPkt}}
    \cup {[st |-> ACNET_PEND, pkt |-> NoPkt], [st |-> ACNET_REQTMO, pkt |-> NoPkt]}

\* the first item request_single finds in the queue of an _rpc's request; pkt
\* is the kind of the decoded reply, "bad" for data unmarshal_reply rejects
RpcKinds == {"ServiceDiscovery_reply", "ListStatus_reply"}

RpcItems ==
    {SesItem(ACNET_SUCCESS, 0, k) : k \in RpcKinds \cup {"bad"}}
    \cup {SesItem(ACNET_PEND, 0, "bad"), SesItem(ACNET_REQTMO, 0, "bad"),
          SesItem(ACNET_NOCON, 0, "bad")}

\* _rpc: request_single, then unmarshal_reply, whose ProtocolError becomes
\* ACNET_RPLYPACK; exc = 0 when nothing is raised
Rpc(item) ==
    LET r == SingleResult(item)
    IN IF r.how = "raised"
       THEN [exc |-> r.raised, reply |-> "none"]
       ELSE IF item.pkt = "bad"
       THEN [exc |-> ACNET_RPLYPACK, reply |-> "none"]
       ELSE [exc |-> 0, reply |-> item.pkt]

\* ------------------------------------------------- _ReplyGenerator.next
NextPass_ReturnsPend(q, blocking) ==
    IF q = <<>>
    THEN [res |-> IF blocking THEN "wait" ELSE "None",
          item |-> NoSesItem, rest |-> q]
    ELSE LET got == QueueGet(q)
         IN [res |-> IF IsFatal(got.item.st) THEN "raise" ELSE "return",
             item |-> got.item, rest |-> got.rest]

\* one pass of the while loop of next() over the queue q: "wait": get(True)
\* on an empty queue does not return; "None": queue.Empty in non-blocking
\* mode; "raise": a fatal status; "continue": ACNET_PEND, the loop goes
\* round; "return": (addr, data)
NextPass(q, blocking) ==
    IF q = <<>>
    THEN [res |-> IF blocking THEN "wait" ELSE "None",
          item |-> NoSesItem, rest |-> q]
    ELSE LET got == QueueGet(q)
         IN [res |-> IF IsFatal(got.item.st) THEN "raise"
                     ELSE IF got.item.st = ACNET_PEND THEN "continue"
                     ELSE "return",
             item |-> got.item, rest |-> got.rest]

\* the pass that just ran, with the state of the generator it ran in
GenObs(p, call) ==
    [res |-> p.res, item |-> p.item, before |-> g_queue, after |-> p.rest,
     blocking |-> g_blocking, raised_before |-> g_raised, call |-> call]

NoGenObserved == g_obs' = NoGenObs

NoSesObserved == ses_obs' = NoSesObs

\* what the loop body makes of the reply a pass returned: the record of
\* _xlat_reply, None when there is none
Translated(p) ==
    IF p.res = "return" /\ p.item.pkt # BadPkt
    THEN XlatReply(p.item.pkt, curr_count)
    ELSE None

\* what a pass does to the generator
GenStep(p, call) ==
    /\ g_queue' = p.rest
    /\ g_raised' = (g_raised \/ p.res = "raise")
    /\ g_taken' = IF p.item = NoSesItem THEN g_taken
                  ELSE Append(g_taken, [n |-> p.item.n, st |-> p.item.st,
                                        call |-> call, rec |-> Translated(p)])
    /\ g_obs' = GenObs(p, call)

\* the reader thread queues a reply of the OpenList request
Arrive ==
    /\ s_pc \in {"idle", "pending", "process"}
    /\ narr < MaxArrivals
    /\ \E k \in ArrivalKinds :
          g_queue' = Append(g_queue, SesItem(k.st, narr + 1, k.pkt))
    /\ narr' = narr + 1
    /\ NoGenObserved
    /\ NoSesObserved
    /\ UNCHANGED <<s_class, s_pc, dpm_task, list_id, g_blocking, g_raised,
                   g_taken, natt, npend, run>>
    /\ UNCHANGED dpmVars
    /\ UNCHANGED busVars
    /\ UNCHANGED setVars
    /\ UNCHANGED codecVars

\* ------------------------------------------------------------ constructor
\* Polling(con, task_node) or Blocking(con, task_node), to the call of
\* _service_discovery or of _alt_open_list
Construct(cls, explicit) ==
    /\ s_pc = "new"
    /\ s_class' = cls
    /\ dpm_task' = IF explicit THEN "DPMJ@node" ELSE dpm_task
    /\ s_pc' = IF explicit THEN "open" ELSE "disc"
    /\ NoGenObserved
    /\ NoSesObserved
    /\ UNCHANGED <<list_id, g_queue, g_blocking, g_raised, g_taken, narr,
                   natt, npend, run>>
    /\ UNCHANGED dpmVars
    /\ UNCHANGED busVars
    /\ UNCHANGED setVars
    /\ UNCHANGED codecVars

\* where an attempt of _service_discovery leaves the constructor: an
\* exception of _rpc is not caught in the loop
AfterAttempt(out) ==
    IF out.exc # 0 THEN "failed"
    ELSE IF out.reply = "ServiceDiscovery_reply" THEN "open"
    ELSE "disc"

\* one round of the while loop of _service_discovery
DiscoveryAttempt ==
    /\ s_pc = "disc"
    /\ natt < MaxAttempts
    /\ \E item \in RpcItems :
          LET out == Rpc(item)
          IN /\ s_pc' = AfterAttempt(out)
             /\ dpm_task' = IF out.exc = 0 /\ out.reply = "ServiceDiscovery_reply"
                            THEN "DPMJ@location" ELSE dpm_task
             /\ ses_obs' = [op |-> "discovery", sent |-> <<"ServiceDiscovery">>,
                            list_id |-> list_id, exc |-> out.exc,
                            reply |-> out.reply, rec |-> None]
    /\ natt' = natt + 1
    /\ NoGenObserved
    /\ UNCHANGED <<s_class, list_id, g_queue, g_blocking, g_raised, g_taken,
                   narr, npend, run>>
    /\ UNCHANGED dpmVars
    /\ UNCHANGED busVars
    /\ UNCHANGED setVars
    /\ UNCHANGED codecVars

\* the argument _alt_open_list gives _open_list
AltOpenList_Block(cls) == TRUE

AltOpenList(cls) == cls = "Blocking"

\* _alt_open_list inside the try of _connect_to_dpm.  exc = 0: the first
\* reply is an OpenList_reply; otherwise gen.next() raised a fatal status or
\* the reply did not decode
OpenList ==
    /\ s_pc = "open"
    /\ \E exc \in {0, ACNET_REQTMO, ACNET_RPLYPACK} :
          IF exc = 0
          THEN /\ g_blocking' = AltOpenList(s_class)
               /\ list_id' = 1
               /\ s_pc' = "idle"
               /\ UNCHANGED dpm_task
          ELSE /\ dpm_task' = "deleted"
               /\ s_pc' = "failed"
               /\ UNCHANGED <<g_blocking, list_id>>
    /\ NoGenObserved
    /\ NoSesObserved
    /\ UNCHANGED <<s_class, g_queue, g_raised, g_taken, narr, natt, npend, run>>
    /\ UNCHANGED dpmVars
    /\ UNCHANGED busVars
    /\ UNCHANGED setVars
    /\ UNCHANGED codecVars

\* ---------------------------------------------------------------- stop
\* stop(): _rpc(StopList), nothing caught
Stop ==
    /\ s_pc \in {"idle", "pending", "process"}
    /\ \E item \in RpcItems :
          ses_obs' = [op |-> "stop", sent |-> <<"StopList">>,
                      list_id |-> list_id, exc |-> Rpc(item).exc,
                      reply |-> Rpc(item).reply, rec |-> None]
    /\ NoGenObserved
    /\ UNCHANGED <<s_class, s_pc, dpm_task, list_id, g_queue, g_blocking,
                   g_raised, g_taken, narr, natt, npend, run>>
    /\ UNCHANGED dpmVars
    /\ UNCHANGED busVars
    /\ UNCHANGED setVars
    /\ UNCHANGED codecVars

\* ------------------------------------------------------- Polling.pending
\* pending() is called and its for loop asks self.replies for the first reply
PendingCall ==
    /\ s_class = "Polling"
    /\ s_pc = "idle"
    /\ npend < MaxPendings
    /\ s_pc' = "pending"
    /\ npend' = npend + 1
    /\ NoGenObserved
    /\ NoSesObserved
    /\ UNCHANGED <<s_class, dpm_task, list_id, g_queue, g_blocking, g_raised,
                   g_taken, narr, natt, run>>
    /\ UNCHANGED dpmVars
    /\ UNCHANGED busVars
    /\ UNCHANGED setVars
    /\ UNCHANGED codecVars

LoopBody_FatalEnds(p) ==
    IF p.res = "continue" THEN "next"
    ELSE IF p.res # "return" THEN "end"
    ELSE IF p.item.pkt = BadPkt THEN "end"
    ELSE IF IsFatal(p.item.pkt.status) THEN "end"
    ELSE IF XlatReply(p.item.pkt, curr_count) # None THEN "yield"
    ELSE "next"

\* what the body of the for loop of pending() and process() does with a
\* pass: "yield", "next" (ask for the next reply), "end" (return or raise)
LoopBody(p) ==
    IF p.res = "continue" THEN "next"
    ELSE IF p.res # "return" THEN "end"
    ELSE IF p.item.pkt = BadPkt THEN "end"
    ELSE IF XlatReply(p.item.pkt, curr_count) # None THEN "yield"
    ELSE "next"

\* one pass of next() for pending(), and the body of the for loop
PendingPass ==
    /\ s_pc = "pending"
    /\ LET p == NextPass(g_queue, g_blocking)
       IN /\ p.res # "wait"
          /\ GenStep(p, npend)
          /\ s_pc' = IF LoopBody(p) = "end" THEN "idle" ELSE "pending"
          /\ ses_obs' = IF LoopBody(p) = "yield"
                        THEN [op |-> "yield", sent |-> <<>>, list_id |-> list_id,
                              exc |-> 0, reply |-> "none",
                              rec |-> XlatReply(p.item.pkt, curr_count)]
                        ELSE NoSesObs
    /\ UNCHANGED <<s_class, dpm_task, list_id, g_blocking, narr, natt, npend,
                   run>>
    /\ UNCHANGED dpmVars
    /\ UNCHANGED busVars
    /\ UNCHANGED setVars
    /\ UNCHANGED codecVars

\* ------------------------------------------------------ Blocking.process
\* process() to its for loop: start(model)
ProcessCall ==
    /\ s_class = "Blocking"
    /\ s_pc = "idle"
    /\ \/ /\ StartCompletes
          /\ s_pc' = "process"
          /\ run' = [started |-> TRUE, records |-> 0, stops |-> 0,
                     ended |-> FALSE]
       \/ /\ \E at \in 0 .. (Len(dev_list) + 1) : StartRaises(at)
          /\ s_pc' = "idle"
          /\ run' = [started |-> FALSE, records |-> 0, stops |-> 0,
                     ended |-> TRUE]
    /\ NoGenObserved
    /\ NoSesObserved
    /\ UNCHANGED <<s_class, dpm_task, list_id, g_queue, g_blocking, g_raised,
                   g_taken, narr, natt, npend>>
    /\ UNCHANGED busVars
    /\ UNCHANGED setVars
    /\ UNCHANGED codecVars

\* one pass of next() for process(), and the body of the for loop.  The
\* self.stop() after the loop runs when the loop is left without an
\* exception, that is when __next__ raises StopIteration, which next() never
\* does: a None it returned fails in the unpacking of the loop body.
ProcessPass ==
    /\ s_pc = "process"
    /\ LET p == NextPass(g_queue, g_blocking)
       IN /\ p.res # "wait"
          /\ GenStep(p, 0)
          /\ s_pc' = IF LoopBody(p) = "end" THEN "idle" ELSE "process"
          /\ run' = [run EXCEPT
                       !.records = IF LoopBody(p) = "yield" THEN @ + 1 ELSE @,
                       !.stops = IF p.res = "StopIteration" THEN @ + 1 ELSE @,
                       !.ended = (LoopBody(p) = "end")]
          /\ ses_obs' = IF LoopBody(p) = "yield"
                        THEN [op |-> "yield", sent |-> <<>>, list_id |-> list_id,
                              exc |-> 0, reply |-> "none",
                              rec |-> XlatReply(p.item.pkt, curr_count)]
                        ELSE NoSesObs
    /\ UNCHANGED <<s_class, dpm_task, list_id, g_blocking, narr, natt, npend>>
    /\ UNCHANGED dpmVars
    /\ UNCHANGED busVars
    /\ UNCHANGED setVars
    /\ UNCHANGED codecVars

\* ======================================================= acnet.Status ==
Facilities == 0 .. 255

ErrCodes == (0 - 128) .. 127

\* the remainder of a division that truncates towards zero
Facility_Truncated(val) ==
    IF val < 0 THEN 0 - ((0 - val) % 256) ELSE val % 256

\* Status.facility: self.value & 255, on a Python integer of any sign
Facility(val) == val % 256

\* Status.is_success / is_warning
IsSuccess(val) == ErrCode(val) = 0

IsWarning(val) == ErrCode(val) > 0

\* Status(facility + 256 * err_code)
StatusNew ==
    /\ st_pc = "new"
    /\ \E fac \in Facilities, err \in ErrCodes :
          /\ st_in' = [facility |-> fac, err_code |-> err]
          /\ st_val' = fac + 256 * err
    /\ st_pc' = "built"
    /\ UNCHANGED <<st_out, nm_pc, nm_in, nm_r50, nm_out>>
    /\ UNCHANGED <<dpmVars, busVars, sesVars, setVars>>

\* the properties and predicates of the Status are read
StatusRead ==
    /\ st_pc = "built"
    /\ st_out' = [facility |-> Facility(st_val), err_code |-> ErrCode(st_val),
                  success |-> IsSuccess(st_val), fatal |-> IsFatal(st_val),
                  warning |-> IsWarning(st_val)]
    /\ st_pc' = "read"
    /\ UNCHANGED <<st_in, st_val, nm_pc, nm_in, nm_r50, nm_out>>
    /\ UNCHANGED <<dpmVars, busVars, sesVars, setVars>>

NextStatus ==
    \/ StatusNew
    \/ StatusRead

SpecStatus == Init /\ [][NextStatus]_vars

\* =============================================== Connection._rtoa, _ator ==
\* characters are strings of length 1, a name is a sequence of characters

\* _rtoa: chars = " ABCDEFGHIJKLMNOPQRSTUVWXYZ$.%0123456789"
Chars ==
    <<" ", "A", "B", "C", "D", "E", "F", "G", "H", "I", "J", "K", "L", "M",
      "N", "O", "P", "Q", "R", "S", "T", "U", "V", "W", "X", "Y", "Z", "$",
      ".", "%", "0", "1", "2", "3", "4", "5", "6", "7", "8", "9">>

UpperCase ==
    <<"A", "B", "C", "D", "E", "F", "G", "H", "I", "J", "K", "L", "M", "N",
      "O", "P", "Q", "R", "S", "T", "U", "V", "W", "X", "Y", "Z">>

LowerCase ==
    <<"a", "b", "c", "d", "e", "f", "g", "h", "i", "j", "k", "l", "m", "n",
      "o", "p", "q", "r", "s", "t", "u", "v", "w", "x", "y", "z">>

Digits ==
    <<"0", "1", "2", "3", "4", "5", "6", "7", "8", "9">>

InSeq(seq, char) == \E i \in 1 .. Len(seq) : seq[i] = char

\* ord(char) - ord(seq[1]) for a char of seq
Offset(seq, char) == (CHOOSE i \in 1 .. Len(seq) : seq[i] = char) - 1

\* _ator: char_to_index
CharToIndex(char) ==
    IF InSeq(UpperCase, char) THEN Offset(UpperCase, char) + 1
    ELSE IF InSeq(LowerCase, char) THEN Offset(LowerCase, char) + 1
    ELSE IF InSeq(Digits, char) THEN Offset(Digits, char) + 30
    ELSE IF char = "$" THEN 27
    ELSE IF char = "." THEN 28
    ELSE IF char = "%" THEN 29
    ELSE 0

\* input_string[index] if index < s_len else ' ', index counted from 0
CharAt(str, index) == IF index < Len(str) THEN str[index + 1] ELSE " "

\* the value the loop of _ator builds from the three characters at from
Packed(str, from) ==
    (CharToIndex(CharAt(str, from)) * 40
     + CharToIndex(CharAt(str, from + 1))) * 40
    + CharToIndex(CharAt(str, from + 2))

\* _ator: (second_bit << 16) | first_bit.  Both values are below 40^3 <
\* 2^16, so first_bit is the low and second_bit the high 16 bits of the
\* result; the 32-bit value is kept as its two 16-bit words.
Ator(str) == [lo |-> Packed(str, 0), hi |-> Packed(str, 3)]

\* the interpreters the module is written for (it imports queue, and Queue
\* when that fails)
PythonVersions == {2, 3}

\* the three characters the loop of _rtoa writes for 16 bits
Unpacked(bits) ==
    <<Chars[((bits \div 1600) % 40) + 1], Chars[((bits \div 40) % 40) + 1],
      Chars[(bits % 40) + 1]>>

\* _rtoa under Python version py; r50 & 0xffff and (r50 >> 16) & 0xffff are
\* the two words of r50.  array.array('c', ...) is a ValueError in
\* Python 3, where the typecode 'c' does not exist; in Python 2 the loop
\* divides integers.
Rtoa(r50, py) ==
    IF py = 3
    THEN [ok |-> FALSE, str |-> <<>>]
    ELSE [ok |-> TRUE,
          str |-> Unpacked(r50.lo % 65536) \o Unpacked(r50.hi % 65536)]

\* the characters names are drawn from, and their lengths
NameChars == {" ", "A", "Z", "%", "0", "9"}

Names == UNION {[1 .. k -> NameChars] : k \in 0 .. 6}

\* _ator(name)
NameEncode ==
    /\ nm_pc = "new"
    /\ \E str \in Names :
          /\ nm_in' = str
          /\ nm_r50' = Ator(str)
    /\ nm_pc' = "encoded"
    /\ UNCHANGED <<st_pc, st_in, st_val, st_out, nm_out>>
    /\ UNCHANGED <<dpmVars, busVars, sesVars, setVars>>

\* _rtoa(r50)
NameDecode ==
    /\ nm_pc = "encoded"
    /\ \E py \in PythonVersions : nm_out' = Rtoa(nm_r50, py)
    /\ nm_pc' = "decoded"
    /\ UNCHANGED <<st_pc, st_in, st_val, st_out, nm_in, nm_r50>>
    /\ UNCHANGED <<dpmVars, busVars, sesVars, setVars>>

NextName ==
    \/ NameEncode
    \/ NameDecode

SpecName == Init /\ [][NextName]_vars

\* ------------------------------------------------------ specifications

\* the list session, over a bus session that is left alone
SpecDPM == Init /\ [][NextDPM]_vars

\* the bus session, with no list session on it
SpecBus == Init /\ [][NextBus]_vars

\* the bus session with callers of request_single, and a gateway that also
\* relays fatal statuses
NextOnce ==
    \/ ReaderData
    \/ ReaderAck
    \/ ReaderConnect
    \/ ReaderHandshake
    \/ ReaderError
    \/ HandlerIter
    \/ HandlerReset
    \/ HandlerClose
    \/ HandlerClear
    \/ \E c \in Callers : Begin(c, "single")
    \/ \E c \in Callers : CmdLock(c)
    \/ \E c \in Callers : CmdWrite(c)
    \/ \E c \in Callers : CmdAck(c)
    \/ \E c \in Callers : CmdTimeout(c)
    \/ \E c \in Callers : Register(c)
    \/ \E c \in Callers : RegisterInsert(c)
    \/ \E c \in Callers : RegisterReturn(c)
    \/ \E c \in Callers : SingleGet(c)
    \/ GwHandle
    \/ GwData
    \/ GwDataFatal
    \/ NetFail

SpecOnce == Init /\ [][NextOnce]_vars

\* the local list and start(), for a caller that changes the requests of its
\* tags
NextList ==
    \/ \E tag \in Tags, drf \in ListDrfs : AddEntry(tag, drf)
    \/ \E tag \in Tags : RemoveEntry(tag)
    \/ ClearList
    \/ StartOk
    \/ \E at \in 0 .. (Cardinality(Tags) + 1) : StartFails(at)

SpecList == Init /\ [][NextList]_vars

\* the list, its starts and apply_settings
NextSettings ==
    \/ \E tag \in Tags, drf \in Drfs : AddEntry(tag, drf)
    \/ \E tag \in Tags : RemoveEntry(tag)
    \/ StartOk
    \/ \E at \in 0 .. (Cardinality(Tags) + 1) : StartFails(at)
    \/ ApplySettings

SpecSettings == Init /\ [][NextSettings]_vars

\* a list session from its constructor on
NextSession ==
    \/ \E cls \in Classes, explicit \in BOOLEAN : Construct(cls, explicit)
    \/ DiscoveryAttempt
    \/ OpenList
    \/ Arrive
    \/ Stop
    \/ PendingCall
    \/ PendingPass
    \/ ProcessCall
    \/ ProcessPass

SpecSession == Init /\ [][NextSession]_vars

\* ======================================================= claims: DPM.py ==

\* the reply classes that carry one reference id of their own
SingleRefKinds == KnownKinds \ {"ApplySettings_reply"}

\* C1: _xlat_reply produces a record for a reply only if the reply's
\* reference id mod 4 equals curr_count at the time of the call, every record
\* produced carries tag = reference id div 4, and a reply of a known class
\* whose reference id mod 4 differs from curr_count yields None.  For an
\* ApplySettings_reply this holds entry by entry: the list returned holds one
\* ItemStatus for each entry whose generation matches, and None is returned
\* when no entry matches.
C1_XlatGenerationFilter ==
    xlat # NoXlat =>
        LET m == xlat.msg
            c == xlat.cnt
            o == xlat.out
            matching == {j \in 1 .. Len(m.items) : m.items[j].ref % 4 = c}
        IN IF m.kind = "ApplySettings_reply"
           THEN /\ o.type \in {"None", "List"}
                /\ (o.type = "None") <=> (matching = {})
                /\ Len(o.items) = Cardinality(matching)
                /\ \A i \in 1 .. Len(o.items) :
                      /\ o.items[i].type = "ItemStatus"
                      /\ \E j \in matching :
                            /\ o.items[i].tag = m.items[j].ref \div 4
                            /\ o.items[i].status = m.items[j].status
           ELSE /\ (o # None) => (m.ref % 4 = c /\ o.tag = m.ref \div 4)
                /\ (m.kind \in KnownKinds /\ m.ref % 4 # c) => (o = None)
                /\ (m.kind \in KnownKinds /\ m.ref % 4 = c) => (o # None)

\* C1 witness: an ApplySettings_reply was translated with curr_count = 2, one
\* of its two entries was kept (as tag 1) and the other dropped.
C1_Witness ==
    /\ xlat.msg.kind = "ApplySettings_reply"
    /\ xlat.cnt = 2
    /\ Len(xlat.msg.items) = 2
    /\ xlat.out.type = "List"
    /\ Len(xlat.out.items) = 1
    /\ xlat.out.items[1].tag = 1

\* C2 (as claimed): whatever the number of successful starts, a reply whose
\* reference id was issued by a start earlier than the most recent successful
\* start is dropped by _xlat_reply.
C2_StaleRepliesDropped ==
    (xlat # NoXlat /\ xlat.msg.ep > 0 /\ xlat.msg.ep < xlat.ns)
        => xlat.out = None

\* C3 (as claimed): after exactly two successful starts next_count is 2 and
\* _xlat_reply accepts the list service's replies whose reference ids are
\* congruent to 2 mod 4 and drops those congruent to 0, 1 or 3.
C3_AcceptsGenerationTwo ==
    (xlat # NoXlat /\ xlat.ns = 2 /\ xlat.msg.ep > 0
        /\ xlat.msg.kind \in SingleRefKinds) =>
        /\ next_count = 2
        /\ (xlat.msg.ref % 4 = 2) =>
               (xlat.out # None /\ xlat.out.tag = xlat.msg.ref \div 4)
        /\ (xlat.msg.ref % 4 \in {0, 1, 3}) => (xlat.out = None)

\* C3 (amended): after exactly two successful starts next_count is 2,
\* curr_count is 1, and _xlat_reply accepts reference ids congruent to 1 mod
\* 4, with tag = reference id div 4, and drops those congruent to 0, 2 or 3.
C3_AcceptsGenerationOne ==
    (xlat # NoXlat /\ xlat.ns = 2) =>
        /\ next_count = 2
        /\ curr_count = 1
        /\ xlat.msg.kind \in SingleRefKinds =>
              /\ (xlat.msg.ref % 4 = 1) =>
                     (xlat.out # None /\ xlat.out.tag = xlat.msg.ref \div 4)
              /\ (xlat.msg.ref % 4 \in {0, 2, 3}) => (xlat.out = None)
        /\ xlat.msg.kind = "ApplySettings_reply" =>
              \A i \in 1 .. Len(xlat.out.items) :
                 \E j \in 1 .. Len(xlat.msg.items) :
                    /\ xlat.msg.items[j].ref % 4 = 1
                    /\ xlat.out.items[i].tag = xlat.msg.items[j].ref \div 4

\* C3 witness: after two successful starts a reply of the started list with
\* reference id 5 (tag 1, generation 1) was translated to an ItemData of tag 1.
C3_Witness ==
    /\ xlat.ns = 2
    /\ nstart = 2
    /\ xlat.msg.ep = 2
    /\ xlat.msg.ref = 5
    /\ xlat.out.type = "ItemData"
    /\ xlat.out.tag = 1

\* C4: every start() that completes sets curr_count to the value next_count
\* had on entry and next_count to that value plus one, mod 4; both counters
\* are within 0..3 in every state.
C4_StartAdvancesCounters ==
    /\ [](next_count \in 0 .. 3 /\ curr_count \in 0 .. 3)
    /\ [][(start_res' = "ok") =>
             /\ curr_count' = next_count
             /\ next_count' = (next_count + 1) % 4
             /\ nstart' = nstart + 1]_dpmVars

\* C4 witness: the fourth successful start has just completed and next_count
\* has wrapped from 3 to 0.
C4_Witness ==
    /\ start_res = "ok"
    /\ nstart = 4
    /\ curr_count = 3
    /\ next_count = 0

\* ===================================================== claims: acnet.py ==

\* the caller holds the queue of a request_multiple and is reading it
Streaming(c) == c_pc[c] = "stream"

\* the frame numbers of what a caller's generator has returned so far
YieldedNs(c) == {yielded[c][i].n : i \in 1..Len(yielded[c])}

\* C5: for two concurrent request_multiple calls whose acks carried
\* distinct request ids, each generator returns only frames that carried its
\* own request id, in the order the reader received them (frame numbers
\* increase), and without passing over a frame of another status than
\* ACNET_PEND that the reader put in its queue earlier.
C5_StreamsCorrelated ==
    \A a \in Callers, b \in Callers :
        (a # b /\ Streaming(a) /\ Streaming(b) /\ c_rid[a] # c_rid[b]) =>
            /\ \A i \in 1..Len(yielded[a]) : yielded[a][i].rid = c_rid[a]
            /\ \A i \in 1..Len(yielded[a]), j \in 1..Len(yielded[a]) :
                  (i < j) => (yielded[a][i].n < yielded[a][j].n)
            /\ \A r \in routed :
                  (/\ r.q = c_q[a]
                   /\ r.item.st # ACNET_PEND
                   /\ \E n \in YieldedNs(a) : r.item.n < n)
                  => r.item.n \in YieldedNs(a)

\* two streams with distinct request ids, the frames of one received between
\* two frames of the other, all returned
C5_Witness ==
    \E a \in Callers, b \in Callers :
        /\ a # b /\ Streaming(a) /\ Streaming(b) /\ c_rid[a] # c_rid[b]
        /\ Len(yielded[a]) >= 2 /\ Len(yielded[b]) >= 1
        /\ yielded[a][1].n < yielded[b][1].n
        /\ yielded[b][1].n < yielded[a][2].n

\* how many times the except block put ACNET_NOCON in queue q
NoconCount(q) == Cardinality({i \in 1..Len(noc_log) : noc_log[i] = q})

\* C6: when the reader's except block is over (it went back to the top of
\* the loop, or an exception ended it), every queue that was in
\* active_requests when the block was entered has received exactly one
\* ACNET_NOCON from it, and active_requests is empty.
C6_ErrorBroadcastsAndEmpties ==
    [][(r_pc \in {"iter", "clear"} /\ r_pc' \in {"loop", "dead"}) =>
          /\ \A q \in err_qs' : NoconCount(q)' = 1
          /\ TableSize' = 0]_vars

\* C7: no caller reads a queue that active_requests no longer holds unless
\* that queue holds an ACNET_NOCON for it.
C7_NoStreamDroppedSilently ==
    \A c \in Callers :
        (Streaming(c) /\ table[c_rid[c]] # c_q[c]) =>
            \E i \in 1..Len(queues[c_q[c]]) :
                queues[c_q[c]][i].st = ACNET_NOCON

\* the caller has written its command, or is about to, and has not left the
\* with block
InCommand(c) == c_pc[c] \in {"write", "ack"}

\* C8: at most one caller is between the write of its command and the end
\* of its wait for the ack, and that caller holds cmd_lock.
C8_OneCommandInFlight ==
    /\ \A a \in Callers, b \in Callers :
          (InCommand(a) /\ InCommand(b)) => (a = b)
    /\ \A c \in Callers : InCommand(c) => (cmd_lock = c)

\* one caller waits for its ack while the other waits for the lock
C8_Witness ==
    \E a \in Callers, b \in Callers :
        /\ c_pc[a] = "ack" /\ cmd_lock = a
        /\ c_pc[b] = "lock"

\* C9: the ack that a _send_command call returns is the gateway's ack of the
\* command that call wrote.
C9_AckOfOwnCommand ==
    (cmd_obs.how = "ack") => (cmd_obs.got = cmd_obs.sent)

\* C10: a get_node whose ack wait times out, or whose write to the socket
\* fails, raises ACNET_NOCON, and cmd_lock is released.
C10_GetNodeFailsWithNocon ==
    (cmd_obs.kind = "node" /\ cmd_obs.how \in {"timeout", "write_failed"}) =>
        /\ cmd_obs.raised = "NOCON"
        /\ cmd_lock # cmd_obs.c

\* a request_single call has just ended, having taken an item from its queue
SingleEnded == cmd_obs.kind = "single"

\* C11: request_single never returns a reply whose status is ACNET_PEND.
C11_SingleSkipsPend ==
    (SingleEnded /\ cmd_obs.how = "returned") =>
        (cmd_obs.got.st # ACNET_PEND)

\* C12: when the first reply request_single receives carries a fatal status,
\* the call raises that status, and the step that raises ends the call and
\* writes no command: no second request is sent.
C12_SingleRaisesFatal ==
    /\ [](SingleEnded =>
            /\ IsFatal(cmd_obs.got.st) =>
                  (cmd_obs.how = "raised" /\ cmd_obs.raised = cmd_obs.got.st)
            /\ c_pc[cmd_obs.c] = "idle")
    /\ [][(cmd_obs'.kind = "single" /\ cmd_obs'.how = "raised") =>
             (to_gw' = to_gw /\ ncmd' = ncmd)]_vars

\* request_single raised the ACNET_REQTMO that its first reply carried
C12_Witness ==
    /\ SingleEnded
    /\ cmd_obs.got.st = ACNET_REQTMO
    /\ cmd_obs.how = "raised" /\ cmd_obs.raised = ACNET_REQTMO

\* how many of the requests are AddToList requests
AddCount(reqs) == Cardinality({i \in 1 .. Len(reqs) : reqs[i] = "AddToList"})

\* C15: a start() that meets a fatal status in the reply to the AddToList of
\* entry `at` raises exactly that status, has sent the entries 1..at and no
\* later one, has not sent StartList, and leaves curr_count, next_count and
\* dev_list as they were.
C15_FatalAddAbortsStart ==
    [][(start_obs'.cause = "add_fatal") =>
          /\ start_obs'.exc = start_obs'.st
          /\ AddCount(start_obs'.reqs) = start_obs'.at
          /\ Len(sent_adds') = start_obs'.at
          /\ \A i \in 1 .. Len(start_obs'.reqs) :
                start_obs'.reqs[i] # "StartList"
          /\ UNCHANGED <<curr_count, next_count, dev_list>>]_vars

\* the reply to the first of two entries was fatal with ACNET_REQTMO
C15_Witness ==
    /\ start_obs.cause = "add_fatal"
    /\ start_obs.at = 1 /\ Len(dev_list) = 2
    /\ start_obs.exc = ACNET_REQTMO
    /\ start_obs.reqs = <<"ClearList", "AddToList">>

\* C16: dev_list holds at most one entry per tag; the entry of a tag carries
\* the drf2 of the most recent add_entry for it, and a tag added and not
\* removed since has an entry; a step of add_entry, remote_entry or
\* clear_list sends no request and leaves curr_count and next_count alone.
C16_ListIsLocalUpsert ==
    /\ [](/\ \A i \in 1 .. Len(dev_list), j \in 1 .. Len(dev_list) :
                (dev_list[i][1] = dev_list[j][1]) => (i = j)
          /\ \A i \in 1 .. Len(dev_list) :
                last_add[dev_list[i][1]] = dev_list[i][2]
          /\ \A t \in Tags :
                (last_add[t] # "none") =>
                    \E i \in 1 .. Len(dev_list) : dev_list[i][1] = t)
    /\ [][(list_obs'.op # "none") =>
             /\ UNCHANGED <<curr_count, next_count>>
             /\ sent_adds' = <<>> /\ start_obs' = NoStartObs]_vars

\* add_entry has just put an entry in place of the entry of its tag, in a
\* list of two entries with different drf2
C16_Witness ==
    /\ list_obs.op = "add_entry" /\ list_obs.replaced
    /\ Len(dev_list) = 2
    /\ dev_list[1][2] # dev_list[2][2]

\* ========================================= claims: acnet.py, the table ==

\* C26: every change of active_requests is made by a thread that holds
\* data_lock: a caller inside the with block of _send_request, or the reader
\* inside the with block in which it files a data frame (taken and released
\* within that step).
C26_TableChangesUnderLock ==
    [][(table' # table) =>
          \/ \E c \in Callers :
                data_lock = c /\ c_pc[c] = "reg_ins" /\ c_pc'[c] = "reg_ret"
          \/ (r_pc = "loop" /\ data_lock = 0 /\ from_gw' = Tail(from_gw))]_vars

\* C27 as stated: whenever con_event is set, the socket is live and
\* self.name is the name its handshake assigned.
C27_GateOpenOnLiveSocket ==
    con_event => (sock = "open" /\ name = conn)

\* C27 (amended): con_event is set and cleared by steps of the reader only;
\* it is set by the step that receives the handshake reply of a new
\* connection and assigns self.name from it, and cleared at the end of the
\* except block; whenever it is set, self.name is the name assigned by the
\* handshake of the connection made last, which may have failed and whose
\* socket may be closed already.
C27_GateSetAfterHandshake ==
    /\ [](con_event =>
            (conn > 0 /\ name = conn /\ sock \in {"open", "broken", "closed"}))
    /\ [][(con_event' # con_event) =>
             /\ c_pc' = c_pc
             /\ IF con_event'
                THEN /\ r_pc = "hs" /\ sock = "hs" /\ sock' = "open"
                     /\ conn' = conn + 1 /\ name' = conn'
                ELSE r_pc = "clear" /\ r_pc' = "loop"]_vars

\* the gate is open again on the second connection
C27_Witness ==
    /\ con_event /\ sock = "open"
    /\ conn = 2 /\ name = 2

\* C28: the requester that leaves _send_request with the queue of its
\* request id obtains the one queue in which the reader filed every data
\* frame of that request id so far, the frames still in it, whichever of
\* the two created the queue (request ids that the gateway has issued once).
C28_RaceLosesNoFrame ==
    [][\A c \in Callers :
          (/\ c_pc[c] = "reg_ret" /\ c_pc'[c] \in {"stream", "get"}
           /\ ~rid_reused) =>
             \A r \in routed :
                (r.item.rid = c_rid[c]) =>
                   /\ r.q = c_q'[c]
                   /\ \E i \in 1 .. Len(queues'[c_q'[c]]) :
                         queues'[c_q'[c]][i] = r.item]_vars

\* C31: a caller's command is written to the socket only while con_event is
\* set: whenever sendall of _send_command goes through (the caller passes
\* from the write to the wait for the ack), the gate is open.
C31_WritesOnlyWhileGateOpen ==
    [][\A c \in Callers :
          (c_pc[c] = "write" /\ c_pc'[c] = "ack") => con_event]_vars

\* the queue of a stream that active_requests no longer holds
Orphaned(q) == q \notin TableQueues

\* C29 as stated: once the reader has reconnected, a stream opened on the
\* connection that dropped produces no further reply.
C29_NoReplyAfterReconnect ==
    [][(conn >= 2 /\ con_event) =>
          \A c \in Callers :
             (Streaming(c) /\ Orphaned(c_q[c])) => yielded'[c] = yielded[c]]_vars

\* C29 (amended): no step of the connection changes list_id, curr_count or
\* next_count; the except block of the reader leaves none of the queues of
\* the dropped connection in active_requests; a queue that active_requests
\* no longer holds never comes back to it and never receives another item;
\* and a stream returns only what it takes from the head of its own queue.
\* So after a reconnect a stream of the dropped connection returns at most
\* the replies that were queued before the drop, and no frame of the new
\* connection.
C29_OldStreamGetsNoNewFrame ==
    /\ [][UNCHANGED <<list_id, curr_count, next_count>>]_vars
    /\ [][(r_pc = "reset" /\ r_pc' # "reset") => TableQueues' = {}]_vars
    /\ [][\A q \in 1 .. Len(queues) :
             Orphaned(q) =>
                /\ q \notin TableQueues'
                /\ Len(queues'[q]) <= Len(queues[q])]_vars
    /\ [][\A c \in Callers :
             (Streaming(c) /\ yielded'[c] # yielded[c] /\ c_pc'[c] = "stream") =>
                /\ queues[c_q[c]] # <<>>
                /\ yielded'[c] = Append(yielded[c], Head(queues[c_q[c]]))]_vars

\* after the reconnect the reader has filed a frame that carries the request
\* id of a stream of the dropped connection, in another queue than the
\* stream's
C29_Witness ==
    /\ conn = 2 /\ con_event
    /\ \E c \in Callers :
          /\ Streaming(c) /\ Orphaned(c_q[c])
          /\ \E r \in routed :
                /\ r.item.rid = c_rid[c]
                /\ r.q # c_q[c]
                /\ r.q \in TableQueues

\* ======================================================== claims: start ==

\* C25: every AddToList request a start() sends carries tag * 4 + next_count,
\* next_count being the value at the entry of that start(); the entries of
\* one start() share the generation bits.
C25_AddsUseNextCount ==
    [][(sent_adds' # <<>>) =>
          /\ Len(sent_adds') <= Len(dev_list)
          /\ \A i \in 1 .. Len(sent_adds') :
                /\ sent_adds'[i] = dev_list[i][1] * GenModulus + next_count
                /\ sent_adds'[i] % GenModulus = next_count]_vars

\* the third start() has sent the entries of two tags
C25_Witness ==
    /\ Len(sent_adds) = 2
    /\ XlatTag(sent_adds[1]) # XlatTag(sent_adds[2])
    /\ start_res = "ok"
    /\ nstart = 3

\* C30: in every state curr_count is one behind next_count modulo 4:
\* initially (3 and 0), after a start() that completed and after a start()
\* that raised.
C30_CurrOneBehindNext ==
    curr_count = (next_count + (GenModulus - 1)) % GenModulus

\* a start() has raised after at least one start() that completed, with
\* AddToList requests already sent
C30_Witness ==
    /\ start_res = "raised"
    /\ nstart >= 1
    /\ sent_adds # <<>>

\* =============================================== claims: apply_settings ==

\* C21 as stated: every setting entry apply_settings sends carries
\* tag * 4 + next_count, the write generation at the time of the call.
C21_SettingsUseNextCount ==
    set_obs.sent =>
       \A i \in 1 .. Len(set_obs.refs) :
          set_obs.refs[i] = set_obs.tags[i] * GenModulus + set_obs.next

\* C21 (amended): every setting entry apply_settings sends carries
\* tag * 4 + curr_count, where tag is the tag of the addressed dev_list entry
\* and curr_count the read generation at the time of the call, the
\* generation of the list started last.
C21_SettingsUseCurrCount ==
    set_obs.sent =>
       /\ Len(set_obs.refs) = Len(set_obs.tags)
       /\ \A i \in 1 .. Len(set_obs.refs) :
             /\ set_obs.refs[i] = set_obs.tags[i] * GenModulus + set_obs.curr
             /\ XlatTag(set_obs.refs[i]) = set_obs.tags[i]
             /\ GenMatches(set_obs.refs[i], set_obs.curr)

\* settings for two different tags sent after a start
C21_Witness ==
    /\ set_obs.sent
    /\ nstart > 0
    /\ \E i, j \in 1 .. Len(set_obs.tags) : set_obs.tags[i] # set_obs.tags[j]

\* ================================================= claims: list session ==

\* a pass of next() has just run
PassEnded == g_obs.res # "none"

\* C13: next() of a reply stream never returns a reply whose status is PEND:
\* a pass that finds a PEND reply at the head of the channel removes it and
\* the loop goes round again; in non-blocking mode on an empty channel the
\* pass returns None, raises nothing and removes nothing.
C13_NextSkipsPend ==
    PassEnded =>
       /\ (g_obs.res = "return") =>
              (g_obs.item.st # ACNET_PEND /\ ~IsFatal(g_obs.item.st))
       /\ (g_obs.before # <<>> /\ Head(g_obs.before).st = ACNET_PEND) =>
              /\ g_obs.res = "continue"
              /\ g_obs.after = Tail(g_obs.before)
              /\ s_pc \in {"pending", "process"}
       /\ (~g_obs.blocking /\ g_obs.before = <<>>) =>
              (g_obs.res = "None" /\ g_obs.after = g_obs.before)

\* a non-blocking next() has returned None on the empty channel, in a call
\* that discarded a PEND reply before
C13_Witness ==
    /\ g_obs.res = "None"
    /\ ~g_obs.blocking
    /\ g_obs.before = <<>>
    /\ \E i \in 1 .. Len(g_taken) :
          g_taken[i].st = ACNET_PEND /\ g_taken[i].call = g_obs.call

\* C14: once next() has raised a fatal status, no later next() on the same
\* stream returns a reply.
C14_FatalTerminatesStream ==
    (g_obs.res = "return") => ~g_obs.raised_before

\* C17: stop() sends one StopList request for the list id of the session and
\* raises nothing, whatever the reply.
C17_StopNeverRaises ==
    (ses_obs.op = "stop") =>
       /\ ses_obs.sent = <<"StopList">>
       /\ ses_obs.list_id = list_id
       /\ ses_obs.exc = 0

\* C18: process() produces records only after start(), and a process() run
\* whose sequence of records has come to an end has called stop() exactly
\* once.
C18_ProcessStopsOnce ==
    /\ (run.records > 0) => run.started
    /\ (run.started /\ run.ended) => (run.stops = 1)

\* C19: pending() never waits for a reply; a call ends as soon as the channel
\* is empty; over all calls the replies are taken at most once each, in
\* arrival order, a later call going on where the earlier ones stopped.
C19_PendingNeverBlocks ==
    /\ (s_pc = "pending") => NextPass(g_queue, g_blocking).res # "wait"
    /\ (g_obs.call > 0 /\ g_obs.before = <<>>) =>
           (g_obs.res = "None" /\ s_pc = "idle")
    /\ \A i, j \in 1 .. Len(g_taken) :
           (i < j) => /\ g_taken[i].n < g_taken[j].n
                      /\ g_taken[i].call <= g_taken[j].call
    /\ \A i \in 1 .. Len(g_queue) :
           \A j \in 1 .. Len(g_taken) : g_taken[j].n < g_queue[i].n

\* the second pending() call has ended on the empty channel after taking a
\* reply, the first call having taken one too
C19_Witness ==
    /\ s_pc = "idle"
    /\ g_obs.res = "None"
    /\ g_obs.call = 2
    /\ \E i, j \in 1 .. Len(g_taken) :
          g_taken[i].call = 1 /\ g_taken[j].call = 2

\* C20: a discovery attempt that does not produce a ServiceDiscovery_reply,
\* whether it returns another kind of message or ends with a fatal status,
\* is followed by another attempt; dpm_task is set only from a
\* ServiceDiscovery_reply.
C20_DiscoveryRetried ==
    (ses_obs.op = "discovery") =>
       /\ (ses_obs.reply # "ServiceDiscovery_reply") => s_pc = "disc"
       /\ (dpm_task # "None") => ses_obs.reply = "ServiceDiscovery_reply"

\* C22: a Status_reply of the current generation is never raised: whatever
\* its status, fatal ones included, the loop of pending() and process()
\* yields ItemStatus(tag, status) for it and goes on to the next reply.
C22_TagErrorIsARecord ==
    (/\ g_obs.res = "return"
     /\ g_obs.item.pkt.kind = "Status_reply"
     /\ GenMatches(g_obs.item.pkt.ref, curr_count)) =>
       /\ ses_obs.op = "yield"
       /\ ses_obs.exc = 0
       /\ ses_obs.rec = ItemStatus(XlatTag(g_obs.item.pkt.ref),
                                   g_obs.item.pkt.status)
       /\ s_pc \in {"pending", "process"}
       /\ g_raised = g_obs.raised_before

\* a record of tag 0 is delivered after the fatal ItemStatus of tag 1, in
\* the same call
C22_Witness ==
    /\ ses_obs.op = "yield"
    /\ ses_obs.rec.tag = 0
    /\ \E i \in 1 .. Len(g_taken) :
          /\ g_taken[i].rec.type = ItemStatus(1, ACNET_REQTMO).type
          /\ g_taken[i].rec.tag = 1
          /\ IsFatal(g_taken[i].rec.status)
          /\ g_taken[i].call = g_obs.call
          /\ g_taken[i].n < g_obs.item.n

\* ================================================ claims: acnet.Status ==

\* C23: for every facility in 0..255 and error code in -128..127 the Status
\* built from facility + 256 * err_code reports that facility and that error
\* code, and is fatal / success / warning exactly when the error code is
\* negative / zero / positive.
C23_StatusRoundTrip ==
    (st_pc = "read") =>
       /\ st_out.facility = st_in.facility
       /\ st_out.err_code = st_in.err_code
       /\ st_out.fatal = (st_in.err_code < 0)
       /\ st_out.success = (st_in.err_code = 0)
       /\ st_out.warning = (st_in.err_code > 0)

\* the properties of the most negative status with the largest facility
C23_Witness ==
    /\ st_pc = "read"
    /\ st_in = [facility |-> 255, err_code |-> 0 - 128]
    /\ st_val < 0
    /\ st_out.fatal

\* ======================================= claims: Connection._rtoa, _ator ==

\* the name padded with spaces to 6 characters
Padded(str) == [i \in 1 .. 6 |-> IF i <= Len(str) THEN str[i] ELSE " "]

\* C24: for every name of up to 6 characters of the alphabet, _rtoa(_ator(s))
\* is s padded with spaces to 6 characters, the first three characters
\* packed base 40 in the low 16 bits and the last three in the high 16 bits.
C24_NameRoundTrip ==
    (nm_pc = "decoded") =>
       /\ nm_r50.lo = Packed(nm_in, 0)
       /\ nm_r50.hi = Packed(nm_in, 3)
       /\ nm_out.ok
       /\ nm_out.str = Padded(nm_in)

=============================================================================
